---------------------------- MODULE Spec2Model ----------------------------
(***************************************************************************)
(* A model of buwp-local: the configuration resolver (lib/config.js), the  *)
(* docker-compose generator (lib/compose-generator.js) and the start and   *)
(* update commands (lib/commands/start.js, lib/commands/update.js).        *)
(*                                                                         *)
(* Text is modelled as a sequence of one-character strings, so that        *)
(* lower-casing, character replacement, trimming and concatenation are     *)
(* computed and not assumed.  A JSON / JavaScript value is modelled as a   *)
(* set of <<path, leaf>> pairs: a leaf is a tagged sequence of strings     *)
(* (<<"num","80">>, <<"str","a","b">>, <<"arr",...>>, <<"null">>,          *)
(* <<"undef">>), a scalar is the single pair with the empty path, and an   *)
(* object is the set of the leaves below it (the empty object is the       *)
(* marker leaf <<"{}">>).                                                  *)
(***************************************************************************)
EXTENDS Integers, Sequences, FiniteSets, TLC

VARIABLES
    mTarget,      \* deepMerge: first argument
    mSource,      \* deepMerge: second argument
    mOutput,      \* deepMerge: returned value, or NotYet
    dirName,      \* basename of the project directory
    configFile,   \* parsed content of .buwp-local.json, or NoFile
    envFile,      \* lines of .env.local, or NoEnvFile
    config,       \* record returned by loadConfig, or NotYet
    composeConfig, \* descriptor generateComposeConfig returned, or NoDescriptor
    composeFile,  \* content of .buwp-local/docker-compose.yml, or NoDescriptor
    keychain,     \* keys of the credentials the keychain holds
    tempFiles,    \* temporary credential files on disk
    dockerVolumes, \* names of the docker volumes that exist
    hostsWarningShown, \* .buwp-local/.hosts-warning-shown exists
    otherDir,     \* the files of the project directory the shell is not in
    upLog,        \* the docker compose up invocations so far, in order
    commandsRun,  \* number of commands started so far
    cmd,          \* command being run
    pc,           \* position in the command
    opts,         \* command-line options of the command
    exitCode,     \* how the command ended
    validation,   \* errors validateConfig returned, or NotValidated
    reportedMissing, \* credential keys the command reported missing
    trulyMissing, \* required keys absent from keychain and .env.local at that report
    tempEnvPath,  \* temporary credential file the command staged, 0 for null
    composeWrites, \* times the command wrote the descriptor file
    upCalls,      \* times the command invoked docker compose up
    watchPc,      \* watch-jobs: position of the process
    isShuttingDown, \* watch-jobs: the flag the signal handler sets
    timerArmed,   \* watch-jobs: a setTimeout(watch) is pending
    started,      \* watch-jobs: processJobs invocations started
    observed,     \* watch-jobs: processJobs results the loop has observed
    startedAtSignal, \* watch-jobs: value of started when the signal arrived
    childRunning, \* watch-jobs: the docker compose exec child is running
    watchQuiet,   \* watch-jobs: options.quiet
    interval,     \* watch-jobs: seconds between checks
    lastResult,   \* watch-jobs: what the last processJobs promise resolved to
    watchExit,    \* watch-jobs: exit code of the process, or "none"
    platform,     \* process.platform
    vault,        \* the buwp-local items of the macOS keychain: account -> password
    vaultOp,      \* the last keychain function called, with its arguments
    vaultResult,  \* what that call returned or threw
    vaultCalls,   \* number of keychain functions called so far
    credentialsFile, \* parseCredentialsFile: the content of the file at filePath
    parseResult, \* parseCredentialsFile: what the call returned or threw
    initOptions, \* init: the command-line options and whether stdin is a terminal
    initOutcome, \* init: how the command ended
    composeCalls, \* the docker compose invocations of stop, destroy, logs, wp and shell so far
    defaultObject, \* the value the DEFAULT_CONFIG object holds now
    loadedRecords \* the records loadConfig returned in this process, each with the keys whose value is an object of DEFAULT_CONFIG

mergeVars == <<mTarget, mSource, mOutput>>
fsVars    == <<dirName, configFile, envFile>>
worldVars == <<composeFile, keychain, tempFiles, dockerVolumes, hostsWarningShown,
               otherDir, upLog, commandsRun>>
cmdVars   == <<cmd, pc, opts, exitCode, validation, reportedMissing, trulyMissing,
               tempEnvPath, composeWrites, upCalls>>
watchVars == <<watchPc, isShuttingDown, timerArmed, started, observed, startedAtSignal,
               childRunning, watchQuiet, interval, lastResult, watchExit>>
vaultVars == <<platform, vault, vaultOp, vaultResult, vaultCalls>>
parseVars == <<credentialsFile, parseResult>>
initVars == <<initOptions, initOutcome>>
invokeVars == <<composeCalls>>
aliasVars == <<defaultObject, loadedRecords>>
auxVars   == <<watchVars, vaultVars, parseVars, initVars, invokeVars, aliasVars>>
vars      == <<mergeVars, fsVars, config, composeConfig, worldVars, cmdVars, auxVars>>

NotYet == {<< <<"?">>, <<"not-yet">> >>}
NoFile == {<< <<"?">>, <<"no-file">> >>}
\* .env.local is a sequence of lines; this one stands for "no such file"
NoEnvFile == << <<"<no-file>">> >>

---------------------------------------------------------------------------
(* Bounds of the model.                                                    *)

\* longest project / directory name drawn, in characters
MaxNameLen == 3

---------------------------------------------------------------------------
(* Text.                                                                   *)

Str(t) == <<"str">> \o t

RECURSIVE SeqsUpTo(_, _)
SeqsUpTo(S, n) ==
    IF n = 0 THEN {<<>>}
    ELSE LET shorter == SeqsUpTo(S, n - 1)
         IN  shorter \cup {Append(s, c) : s \in shorter, c \in S}

---------------------------------------------------------------------------
(* JavaScript values.                                                      *)

LeafVal(l) == {<< <<>>, l >>}
EmptyObj   == LeafVal(<<"{}">>)
Undef      == LeafVal(<<"undef">>)
Null       == LeafVal(<<"null">>)
TrueVal    == LeafVal(<<"bool", "true">>)
FalseVal   == LeafVal(<<"bool", "false">>)
Num(n)     == LeafVal(<<"num", n>>)
StrVal(t)  == LeafVal(Str(t))
ArrVal(t)  == LeafVal(<<"arr">> \o t)

\* item && typeof item === 'object' && !Array.isArray(item)
isObject(item) == item = EmptyObj \/ (\A e \in item : e[1] # <<>>)

LeafOf(v) == (CHOOSE e \in v : e[1] = <<>>)[2]

\* Object.keys(v)
Keys(v) == IF isObject(v) /\ v # EmptyObj THEN {e[1][1] : e \in v} ELSE {}

Sub(v, k) == {<<Tail(e[1]), e[2]>> : e \in {x \in v : x[1] # <<>> /\ x[1][1] = k}}

\* v[k]: undefined when k is not an own key
Get(v, k) == IF k \in Keys(v) THEN Sub(v, k) ELSE Undef

Wrap(k, w) == {<< <<k>> \o e[1], e[2] >> : e \in w}

MkObj(ks, F(_)) == IF ks = {} THEN EmptyObj ELSE UNION {Wrap(k, F(k)) : k \in ks}

\* { ...v, [k]: w }
SetKey(v, k, w) == MkObj(Keys(v) \cup {k}, LAMBDA j : IF j = k THEN w ELSE Sub(v, j))

IndexKey(i) == <<"0", "1", "2", "3", "4", "5", "6", "7">>[i + 1]

\* { ...v }: an object's own entries; a string or an array spreads into an
\* index-keyed object; a number, boolean, null or undefined into {}.
Spread(v) ==
    IF isObject(v) THEN v
    ELSE LET l == LeafOf(v)
         IN  IF l[1] \in {"str", "arr"}
             THEN MkObj({IndexKey(i - 2) : i \in 2..Len(l)},
                        LAMBDA k : StrVal(<<l[(CHOOSE i \in 2..Len(l) : IndexKey(i - 2) = k)]>>))
             ELSE EmptyObj

---------------------------------------------------------------------------
(* lib/config.js: deepMerge, mergeConfig.                                  *)

RECURSIVE deepMerge(_, _)
deepMerge(target, source) ==
    LET output == Spread(target)
    IN  IF isObject(target) /\ isObject(source)
        THEN MkObj(Keys(output) \cup Keys(source),
                   LAMBDA key :
                       IF key \notin Keys(source) THEN Sub(output, key)
                       ELSE IF isObject(Sub(source, key))
                            THEN IF key \notin Keys(target)
                                 THEN Sub(source, key)
                                 ELSE deepMerge(Sub(target, key), Sub(source, key))
                            ELSE Sub(source, key))
        ELSE output

\* configs.reduce((acc, config) => deepMerge(acc, config), {})
\* mergeConfig with the file config merged over the overlay
mergeConfigFileLast(defaults, userConfig, envVars) ==
    deepMerge(deepMerge(deepMerge(EmptyObj, defaults), envVars), userConfig)
mergeConfig(defaults, userConfig, envVars) ==
    deepMerge(deepMerge(deepMerge(EmptyObj, defaults), userConfig), envVars)

---------------------------------------------------------------------------
(* lib/config.js: project name.                                            *)

UpperCase == <<"A", "B", "C", "D", "E", "F", "G", "H", "I", "J", "K", "L", "M",
               "N", "O", "P", "Q", "R", "S", "T", "U", "V", "W", "X", "Y", "Z">>
LowerCase == <<"a", "b", "c", "d", "e", "f", "g", "h", "i", "j", "k", "l", "m",
               "n", "o", "p", "q", "r", "s", "t", "u", "v", "w", "x", "y", "z">>
Digits    == {"0", "1", "2", "3", "4", "5", "6", "7", "8", "9"}

\* one character of String.prototype.toLowerCase
toLowerCase(c) ==
    IF \E i \in 1..Len(UpperCase) : UpperCase[i] = c
    THEN LowerCase[CHOOSE i \in 1..Len(UpperCase) : UpperCase[i] = c]
    ELSE c

\* the character class [a-z0-9_-]
NameChar(c) ==
    \/ \E i \in 1..Len(LowerCase) : LowerCase[i] = c
    \/ c \in Digits
    \/ c \in {"_", "-"}

\* a replacement that removes one leading dash only
StripOneLeadingDash(t) == IF t # <<>> /\ Head(t) = "-" THEN Tail(t) ELSE t

\* .replace(/^-+/, '')
RECURSIVE StripLeadingDashes(_)
StripLeadingDashes(t) ==
    IF t # <<>> /\ Head(t) = "-" THEN StripLeadingDashes(Tail(t)) ELSE t

\* .replace(/-+$/, '')
RECURSIVE StripTrailingDashes(_)
StripTrailingDashes(t) ==
    IF t # <<>> /\ t[Len(t)] = "-"
    THEN StripTrailingDashes(SubSeq(t, 1, Len(t) - 1))
    ELSE t

sanitizeProjectName(name) ==
    LET lowered  == [i \in 1..Len(name) |-> toLowerCase(name[i])]
        replaced == [i \in 1..Len(name) |-> IF NameChar(lowered[i]) THEN lowered[i] ELSE "-"]
    IN  StripTrailingDashes(StripLeadingDashes(replaced))

\* path.basename(projectPath): the model keeps the basename itself
getProjectName(basename) == basename

---------------------------------------------------------------------------
(* lib/config.js: DEFAULT_CONFIG, .env.local, loadConfig.                  *)

DEFAULT_CONFIG ==
    Wrap("projectName", Null)
    \cup Wrap("image", StrVal(<<"ghcr.io/bu-ist/bu-wp-docker-mod_shib:arm64-latest">>))
    \cup Wrap("hostname", StrVal(<<"wordpress.local">>))
    \cup Wrap("multisite", TrueVal)
    \cup Wrap("services", Wrap("redis", TrueVal) \cup Wrap("s3proxy", TrueVal)
                          \cup Wrap("shibboleth", TrueVal))
    \cup Wrap("ports", Wrap("http", Num("80")) \cup Wrap("https", Num("443"))
                       \cup Wrap("db", Num("3306")) \cup Wrap("redis", Num("6379")))
    \cup Wrap("mappings", ArrVal(<<>>))
    \cup Wrap("env", EmptyObj)

\* the fields extractEnvVars fills, each with the variable it reads
EnvVarTable ==
    { <<"db", "password", "WORDPRESS_DB_PASSWORD">>,
      <<"db", "rootPassword", "DB_ROOT_PASSWORD">>,
      <<"shibboleth", "entityId", "SP_ENTITY_ID">>,
      <<"shibboleth", "idpEntityId", "IDP_ENTITY_ID">>,
      <<"shibboleth", "idpLogout", "SHIB_IDP_LOGOUT">>,
      <<"shibboleth", "spKey", "SHIB_SP_KEY">>,
      <<"shibboleth", "spCert", "SHIB_SP_CERT">>,
      <<"s3", "bucket", "S3_UPLOADS_BUCKET">>,
      <<"s3", "region", "S3_UPLOADS_REGION">>,
      <<"s3", "accessKeyId", "S3_UPLOADS_ACCESS_KEY_ID">>,
      <<"s3", "secretAccessKey", "S3_UPLOADS_SECRET_ACCESS_KEY">>,
      <<"s3", "accessRulesTable", "S3_ACCESS_RULES_TABLE">>,
      <<"olap", "name", "OLAP">>,
      <<"olap", "accountNumber", "OLAP_ACCT_NBR">>,
      <<"olap", "region", "OLAP_REGION">> }

(* A line of .env.local is a sequence of pieces of text; "=" and "#" are   *)
(* pieces of their own, and no other piece contains either character.      *)
\* position of the first "=" of a line, 0 when it has none
FirstEq(line) ==
    IF \E i \in 1..Len(line) : line[i] = "="
    THEN CHOOSE i \in 1..Len(line) : line[i] = "=" /\ \A j \in 1..(i - 1) : line[j] # "="
    ELSE 0

\* dotenv: a line KEY=value assigns KEY; a line starting with # is a comment
LineAssigns(line) == line # <<>> /\ Head(line) # "#" /\ FirstEq(line) > 1
LineKey(line)     == SubSeq(line, 1, FirstEq(line) - 1)
LineValue(line)   == SubSeq(line, FirstEq(line) + 1, Len(line))

\* dotenv.config({ path: envPath }): the variables .env.local defines
\* (no variable of the table is set in the environment beforehand)
DotenvDefines(lines, var) ==
    \E i \in 1..Len(lines) : LineAssigns(lines[i]) /\ LineKey(lines[i]) = <<var>>

\* process.env[var] after dotenv.config: the last assignment wins
ProcessEnv(lines, var) ==
    IF DotenvDefines(lines, var)
    THEN LET last == CHOOSE i \in 1..Len(lines) :
                        /\ LineAssigns(lines[i]) /\ LineKey(lines[i]) = <<var>>
                        /\ \A j \in (i + 1)..Len(lines) :
                               ~(LineAssigns(lines[j]) /\ LineKey(lines[j]) = <<var>>)
         IN  StrVal(LineValue(lines[last]))
    ELSE Undef

extractEnvVars(lines) ==
    UNION {Wrap(e[1], Wrap(e[2], ProcessEnv(lines, e[3]))) : e \in EnvVarTable}

\* JavaScript truthiness
Truthy(v) ==
    IF isObject(v) THEN TRUE
    ELSE LET l == LeafOf(v)
         IN  CASE l[1] \in {"null", "undef"} -> FALSE
               [] l[1] = "bool" -> l[2] = "true"
               [] l[1] = "num"  -> l[2] # "0"
               [] l[1] = "str"  -> Len(l) > 1
               [] OTHER -> TRUE

IsString(v) == ~isObject(v) /\ LeafOf(v)[1] = "str"
TextOf(v)   == Tail(LeafOf(v))

Threw     == {<< <<"?">>, <<"threw">> >>}
Malformed == {<< <<"?">>, <<"malformed">> >>}

\* loadConfig with DEFAULT_CONFIG holding the value defaults
loadConfigFrom(defaults, basename, file, lines) ==
    IF file = Malformed THEN Threw
    ELSE
    LET userConfig == IF file = NoFile THEN EmptyObj ELSE file
        envVars    == IF lines = NoEnvFile THEN EmptyObj ELSE extractEnvVars(lines)
        merged     == mergeConfig(defaults, userConfig, envVars)
        named      == IF ~Truthy(Get(merged, "projectName"))
                      THEN SetKey(merged, "projectName", StrVal(getProjectName(basename)))
                      ELSE merged
    IN  IF ~IsString(Get(named, "projectName")) THEN Threw
        ELSE SetKey(named, "projectName",
                    StrVal(sanitizeProjectName(TextOf(Get(named, "projectName")))))

loadConfig(basename, file, lines) == loadConfigFrom(DEFAULT_CONFIG, basename, file, lines)

---------------------------------------------------------------------------
(* JavaScript expressions used by validateConfig and the generator.        *)

IsNullish(v) == ~isObject(v) /\ LeafOf(v)[1] \in {"null", "undef"}

\* v?.k and v.k on a value that is not null or undefined
Prop(v, k) == IF isObject(v) THEN Get(v, k) ELSE Undef

\* a || b
OrElse(a, b) == IF Truthy(a) THEN a ELSE b

\* `${v}` and String(v)
ToText(v) ==
    IF isObject(v) THEN <<"[object Object]">>
    ELSE LET l == LeafOf(v)
         IN  CASE l[1] = "str"   -> Tail(l)
               [] l[1] = "num"   -> Tail(l)
               [] l[1] = "bool"  -> Tail(l)
               [] l[1] = "null"  -> <<"null">>
               [] l[1] = "undef" -> <<"undefined">>
               [] OTHER          -> Tail(l)

\* environment[key] = value
EnvSet(environment, key, value) ==
    [k \in DOMAIN environment \cup {key} |-> IF k = key THEN value ELSE environment[k]]

\* the elements of config.mappings: each name stands for one mapping object
MappingTable ==
    [ m1 |-> Wrap("local", StrVal(<<"./">>))
             \cup Wrap("container", StrVal(<<"/var/www/html/wp-content/plugins/p1">>)),
      m2 |-> Wrap("local", StrVal(<<"/", "abs/theme">>))
             \cup Wrap("container", StrVal(<<"/var/www/html/wp-content/themes/t2">>)),
      m3 |-> Wrap("container", StrVal(<<"/var/www/html/wp-content/plugins/p3">>)),
      m4 |-> Wrap("local", StrVal(<<"./missing">>))
             \cup Wrap("container", StrVal(<<"/var/www/html/wp-content/plugins/p4">>)),
      m5 |-> Wrap("local", StrVal(<<"./">>)) ]

IsArray(v)    == ~isObject(v) /\ LeafOf(v)[1] = "arr"
Elements(v)   == Tail(LeafOf(v))
MappingOf(m)  == IF m \in DOMAIN MappingTable THEN MappingTable[m] ELSE Null

---------------------------------------------------------------------------
(* lib/config.js: validateConfig.                                          *)

\* the value of a number literal of the model's configurations, rounded
\* down when the literal has a fractional part
NumeralValue(n) ==
    CASE n = "0" -> 0       [] n = "1" -> 1         [] n = "80" -> 80
      [] n = "443" -> 443   [] n = "3306" -> 3306   [] n = "6379" -> 6379
      [] n = "8080" -> 8080 [] n = "65535" -> 65535 [] n = "65536" -> 65536
      [] n = "99999" -> 99999
      [] n = "0.5" -> 0     [] n = "80.5" -> 80     [] n = "65535.5" -> 65535
      [] n = "5" -> 5       [] n = "10" -> 10       [] n = "30" -> 30

\* the number literal has a fractional part
HasFraction(n) == n \in {"0.5", "80.5", "65535.5"}

\* port < 1 and port > 65535 on a number literal
LessThanOne(n)  == NumeralValue(n) < 1
GreaterThanMax(n) ==
    NumeralValue(n) > 65535 \/ (NumeralValue(n) = 65535 /\ HasFraction(n))

IsNumber(v) == ~isObject(v) /\ LeafOf(v)[1] = "num"

\* the local paths that exist on disk (fs.existsSync)
ExistingPaths == { <<"./">>, <<"/", "abs/theme">> }

\* config.ports entries in the order Object.entries yields them
PortOrder == <<"http", "https", "db", "redis">>

RECURSIVE FlattenSeq(_)
FlattenSeq(ss) == IF ss = <<>> THEN <<>> ELSE Head(ss) \o FlattenSeq(Tail(ss))

\* validateConfig throws a TypeError on a mapping that is null
ValidateThrows(cfg) ==
    LET mappings == Get(cfg, "mappings")
    IN  /\ IsArray(mappings)
        /\ \E i \in 1..Len(Elements(mappings)) : IsNullish(MappingOf(Elements(mappings)[i]))

\* the errors array validateConfig returns
validateConfig(cfg) ==
    LET mappings == Get(cfg, "mappings")
        ports    == Get(cfg, "ports")
        mappingErrors(i) ==
            LET mapping == MappingOf(Elements(mappings)[i])
                local   == Prop(mapping, "local")
            IN  (IF ~Truthy(local) \/ ~Truthy(Prop(mapping, "container"))
                 THEN << <<"mapping-missing-fields", IndexKey(i - 1)>> >> ELSE <<>>)
                \o (IF Truthy(local) /\ ToText(local) \notin ExistingPaths
                    THEN << <<"mapping-local-path-does-not-exist", IndexKey(i - 1)>> >> ELSE <<>>)
        portError(service) ==
            LET port == Get(ports, service)
            IN  IF service \in Keys(ports)
                   /\ (~IsNumber(port) \/ LessThanOne(LeafOf(port)[2])
                                       \/ GreaterThanMax(LeafOf(port)[2]))
                THEN << <<"invalid-port", service>> >> ELSE <<>>
    IN  (IF ~Truthy(Get(cfg, "image")) THEN << <<"missing-field", "image">> >> ELSE <<>>)
        \o (IF ~Truthy(Get(cfg, "hostname")) THEN << <<"missing-field", "hostname">> >> ELSE <<>>)
        \o (IF Truthy(mappings) /\ IsArray(mappings)
            THEN FlattenSeq([i \in 1..Len(Elements(mappings)) |-> mappingErrors(i)])
            ELSE <<>>)
        \o (IF Truthy(ports)
            THEN FlattenSeq([i \in 1..Len(PortOrder) |-> portError(PortOrder[i])])
            ELSE <<>>)

---------------------------------------------------------------------------
(* lib/compose-generator.js.                                               *)

\* path.resolve(local) in working directory cwd
PathResolve(cwd, local) ==
    IF local # <<>> /\ Head(local) = "/" THEN local
    ELSE IF local \in {<<>>, <<".">>, <<"./">>} THEN cwd
    ELSE cwd \o <<"/">> \o local

BuwpLocal == <<"b", "u", "w", "p", "-", "l", "o", "c", "a", "l">>

\* config.projectName || 'buwp-local'
ProjectNameOrDefault(cfg) ==
    IF Truthy(Get(cfg, "projectName")) THEN ToText(Get(cfg, "projectName")) ELSE BuwpLocal

dbVolumeName(projectName) == projectName \o <<"_", "d", "b", "_", "d", "a", "t", "a">>
\* the WordPress volume named without its wp_ part
wpVolumeNameBuild(projectName) == projectName \o <<"_", "b", "u", "i", "l", "d">>
wpVolumeName(projectName) == projectName \o <<"_", "w", "p", "_", "b", "u", "i", "l", "d">>

generateDbService(cfg, dbVolume) ==
    LET dbPassword   == OrElse(Prop(Get(cfg, "db"), "password"), StrVal(<<"password">>))
        rootPassword == OrElse(Prop(Get(cfg, "db"), "rootPassword"), StrVal(<<"rootpassword">>))
    IN  [ image       |-> <<"mariadb:latest">>,
          restart     |-> "always",
          volumes     |-> << dbVolume \o <<":", "/var/lib/mysql">> >>,
          environment |-> [ MYSQL_DATABASE      |-> StrVal(<<"wordpress">>),
                            MYSQL_USER          |-> StrVal(<<"wordpress">>),
                            MYSQL_PASSWORD      |-> dbPassword,
                            MYSQL_ROOT_PASSWORD |-> rootPassword ],
          ports       |-> << ToText(Prop(Get(cfg, "ports"), "db")) \o <<":", "3306">> >>,
          networks    |-> <<"wp-network">> ]

\* the WORDPRESS_CONFIG_EXTRA text
WpConfigExtra(cfg) ==
    LET services == Get(cfg, "services")
        s3       == Get(cfg, "s3")
        field(k, d) == ToText(OrElse(Prop(s3, k), StrVal(d)))
    IN  (IF Truthy(Get(cfg, "multisite"))
         THEN <<"define('MULTISITE', true);\n", "define('SUBDOMAIN_INSTALL', false);\n">>
         ELSE <<>>)
        \o (IF Truthy(Prop(services, "s3proxy")) /\ Truthy(s3)
            THEN <<"define('S3_UPLOADS_BUCKET', '">> \o field("bucket", <<>>) \o <<"');\n">>
                 \o <<"define('S3_UPLOADS_REGION', '">> \o field("region", <<"us-east-1">>) \o <<"');\n">>
                 \o <<"define('S3_UPLOADS_KEY', '">> \o field("accessKeyId", <<>>) \o <<"');\n">>
                 \o <<"define('S3_UPLOADS_SECRET', '">> \o field("secretAccessKey", <<>>) \o <<"');\n">>
                 \o <<"define('ACCESS_RULES_TABLE', '">> \o field("accessRulesTable", <<>>) \o <<"');\n">>
                 \o <<"define('S3_UPLOADS_OBJECT_ACL', null);\n",
                      "define('S3_UPLOADS_AUTOENABLE', true);\n",
                      "define('S3_UPLOADS_DISABLE_REPLACE_UPLOAD_URL', true);\n">>
            ELSE <<>>)
        \o <<"define( 'BU_INCLUDES_PATH', '/var/www/html/bu-includes' );\n">>

\* a depends_on list with the cache pushed before the proxy
DependsOnCacheFirst(cfg) ==
    <<"db">>
    \o (IF Truthy(Prop(Get(cfg, "services"), "redis")) THEN <<"redis">> ELSE <<>>)
    \o (IF Truthy(Prop(Get(cfg, "services"), "s3proxy")) THEN <<"s3proxy">> ELSE <<>>)

\* depends_on with every optional service listed whatever its toggle
DependsOnAll(cfg) == <<"db", "s3proxy", "redis">>

\* the depends_on array of the wordpress service
DependsOn(cfg) ==
    <<"db">>
    \o (IF Truthy(Prop(Get(cfg, "services"), "s3proxy")) THEN <<"s3proxy">> ELSE <<>>)
    \o (IF Truthy(Prop(Get(cfg, "services"), "redis")) THEN <<"redis">> ELSE <<>>)

\* the environment object before the custom variables are added
PlatformEnvironment(cfg) ==
    LET services   == Get(cfg, "services")
        env        == Get(cfg, "env")
        shib       == Get(cfg, "shibboleth")
        fixed      == [ WORDPRESS_DB_HOST     |-> StrVal(<<"db:3306">>),
                        WORDPRESS_DB_USER     |-> StrVal(<<"wordpress">>),
                        WORDPRESS_DB_PASSWORD |-> OrElse(Prop(Get(cfg, "db"), "password"),
                                                         StrVal(<<"password">>)),
                        WORDPRESS_DB_NAME     |-> StrVal(<<"wordpress">>),
                        WORDPRESS_DEBUG       |-> OrElse(Prop(env, "WP_DEBUG"), StrVal(<<"0">>)),
                        SERVER_NAME           |-> Get(cfg, "hostname"),
                        HTTP_HOST             |-> Get(cfg, "hostname"),
                        MULTISITE             |-> IF Truthy(Get(cfg, "multisite"))
                                                  THEN StrVal(<<"true">>) ELSE StrVal(<<"false">>),
                        XDEBUG                |-> OrElse(Prop(env, "XDEBUG"), StrVal(<<"false">>)),
                        WP_CLI_ALLOW_ROOT     |-> StrVal(<<"true">>),
                        TZ                    |-> StrVal(<<"America/New_York">>) ]
        shibKeys   == [ SP_ENTITY_ID    |-> "entityId",
                        IDP_ENTITY_ID   |-> "idpEntityId",
                        SHIB_IDP_LOGOUT |-> "idpLogout",
                        SHIB_SP_KEY     |-> "spKey",
                        SHIB_SP_CERT    |-> "spCert" ]
        withShib   == IF Truthy(Prop(services, "shibboleth"))
                      THEN [k \in DOMAIN fixed \cup DOMAIN shibKeys |->
                                IF k \in DOMAIN shibKeys
                                THEN OrElse(Prop(shib, shibKeys[k]), StrVal(<<>>))
                                ELSE fixed[k]]
                      ELSE fixed
        withS3     == IF Truthy(Prop(services, "s3proxy"))
                      THEN EnvSet(withShib, "S3PROXY_HOST", StrVal(<<"http://s3proxy:8080">>))
                      ELSE withShib
    IN  IF Truthy(Prop(services, "redis"))
        THEN EnvSet(EnvSet(withS3, "REDIS_HOST", StrVal(<<"redis">>)),
                    "REDIS_PORT", StrVal(<<"6379">>))
        ELSE withS3

generateWordPressService(cfg, wpVolume, cwd) ==
    LET services   == Get(cfg, "services")
        env        == Get(cfg, "env")
        mappings   == Get(cfg, "mappings")
        depends_on == DependsOn(cfg)
        withRedis  == PlatformEnvironment(cfg)
        \* Object.entries(config.env || {}): if (!environment[key]) environment[key] = String(value)
        custom     == IF Truthy(env) THEN Keys(env) ELSE {}
        withCustom == [k \in DOMAIN withRedis \cup custom |->
                          IF k \in custom /\ (k \notin DOMAIN withRedis \/ ~Truthy(withRedis[k]))
                          THEN StrVal(ToText(Sub(env, k)))
                          ELSE withRedis[k]]
        environment == EnvSet(withCustom, "WORDPRESS_CONFIG_EXTRA", StrVal(WpConfigExtra(cfg)))
        binds      == IF IsArray(mappings)
                      THEN [i \in 1..Len(Elements(mappings)) |->
                               LET mapping == MappingOf(Elements(mappings)[i])
                               IN  PathResolve(cwd, ToText(Prop(mapping, "local")))
                                   \o <<":">> \o ToText(Prop(mapping, "container"))]
                      ELSE <<>>
    IN  [ image       |-> ToText(Get(cfg, "image")),
          depends_on  |-> depends_on,
          restart     |-> "always",
          ports       |-> << ToText(Prop(Get(cfg, "ports"), "http")) \o <<":", "80">>,
                             ToText(Prop(Get(cfg, "ports"), "https")) \o <<":", "443">> >>,
          hostname    |-> Get(cfg, "hostname"),
          environment |-> environment,
          volumes     |-> << wpVolume \o <<":", "/var/www/html">> >> \o binds,
          networks    |-> <<"wp-network">> ]

NoDescriptor    == [state |-> "none"]
ThrewDescriptor == [state |-> "threw"]

\* the keys of the environment object before the custom loop, in the order
\* the generator assigns them
PlatformEnvironmentOrder(cfg) ==
    <<"WORDPRESS_DB_HOST", "WORDPRESS_DB_USER", "WORDPRESS_DB_PASSWORD", "WORDPRESS_DB_NAME",
      "WORDPRESS_DEBUG", "SERVER_NAME", "HTTP_HOST", "MULTISITE", "XDEBUG",
      "WP_CLI_ALLOW_ROOT", "TZ">>
    \o (IF Truthy(Prop(Get(cfg, "services"), "shibboleth"))
        THEN <<"SP_ENTITY_ID", "IDP_ENTITY_ID", "SHIB_IDP_LOGOUT", "SHIB_SP_KEY",
               "SHIB_SP_CERT">>
        ELSE <<>>)
    \o (IF Truthy(Prop(Get(cfg, "services"), "s3proxy")) THEN <<"S3PROXY_HOST">> ELSE <<>>)
    \o (IF Truthy(Prop(Get(cfg, "services"), "redis"))
        THEN <<"REDIS_HOST", "REDIS_PORT">> ELSE <<>>)

\* the order in which the configurations of the model list the keys of env
ConfigEnvOrder ==
    <<"WP_DEBUG", "XDEBUG", "SP_ENTITY_ID", "WORDPRESS_DB_HOST", "WORDPRESS_CONFIG_EXTRA",
      "MY_VAR">>

InSeq(x, q) == \E i \in 1..Len(q) : q[i] = x

\* the keys the generator adds after the platform keys: each custom key the
\* loop adds as a new key, in Object.entries(config.env) order, then
\* WORDPRESS_CONFIG_EXTRA unless the loop has added it already
AddedEnvironmentKeys(cfg) ==
    LET env      == Get(cfg, "env")
        platformKeys == PlatformEnvironmentOrder(cfg)
        custom   == IF Truthy(env) THEN Keys(env) ELSE {}
        added    == SelectSeq(ConfigEnvOrder,
                              LAMBDA k : k \in custom /\ ~InSeq(k, platformKeys))
    IN  added \o (IF InSeq("WORDPRESS_CONFIG_EXTRA", added) THEN <<>>
                  ELSE <<"WORDPRESS_CONFIG_EXTRA">>)

\* an order of the environment keys that changes once a descriptor has been
\* compiled
EnvironmentOrderUnstable(cfg) ==
    IF composeConfig = NoDescriptor
    THEN PlatformEnvironmentOrder(cfg) \o AddedEnvironmentKeys(cfg)
    ELSE AddedEnvironmentKeys(cfg) \o PlatformEnvironmentOrder(cfg)

\* Object.keys(environment)
EnvironmentOrder(cfg) == PlatformEnvironmentOrder(cfg) \o AddedEnvironmentKeys(cfg)

generateS3ProxyService(cfg) ==
    LET olap   == Get(cfg, "olap")
        s3     == Get(cfg, "s3")
        region == OrElse(Prop(olap, "region"), OrElse(Prop(s3, "region"), StrVal(<<"us-east-1">>)))
        olapName    == OrElse(Prop(olap, "name"), StrVal(<<>>))
        olapAcctNbr == OrElse(Prop(olap, "accountNumber"), StrVal(<<>>))
    IN  [ image       |-> <<"public.ecr.aws/bostonuniversity-nonprod/aws-sigv4-proxy">>,
          restart     |-> "always",
          command     |-> << <<"-v">>, <<"--name">>, <<"s3-object-lambda">>, <<"--region">>,
                             ToText(region), <<"--no-verify-ssl">>, <<"--host">>,
                             ToText(olapName) \o <<"-">> \o ToText(olapAcctNbr)
                                 \o <<".s3-object-lambda.">> \o ToText(region)
                                 \o <<".amazonaws.com">> >>,
          environment |-> [ healthcheck_path      |-> StrVal(<<"/s3proxy-healthcheck">>),
                            AWS_ACCESS_KEY_ID     |-> OrElse(Prop(s3, "accessKeyId"), StrVal(<<>>)),
                            AWS_SECRET_ACCESS_KEY |-> OrElse(Prop(s3, "secretAccessKey"), StrVal(<<>>)),
                            REGION                |-> region ],
          networks    |-> <<"wp-network">> ]

generateRedisService(cfg) ==
    [ image    |-> <<"redis:alpine">>,
      restart  |-> "always",
      ports    |-> << ToText(Prop(Get(cfg, "ports"), "redis")) \o <<":", "6379">> >>,
      networks |-> <<"wp-network">> ]

\* a TypeError inside generateComposeConfig: config.services or config.ports
\* is null or undefined, or path.resolve gets a mapping without a string local
ComposeThrows(cfg) ==
    \/ IsNullish(Get(cfg, "services"))
    \/ IsNullish(Get(cfg, "ports"))
    \/ /\ IsArray(Get(cfg, "mappings"))
       /\ \E i \in 1..Len(Elements(Get(cfg, "mappings"))) :
              LET mapping == MappingOf(Elements(Get(cfg, "mappings"))[i])
              IN  IsNullish(mapping) \/ ~IsString(Prop(mapping, "local"))

\* service names with both optional services emitted whatever their toggles
ServiceNamesAll(cfg) == {"db", "wordpress", "s3proxy", "redis"}

\* service names without the optional services
ServiceNamesCore(cfg) == {"db", "wordpress"}

\* Object.keys(composeConfig.services), in the order the generator assigns them
ServiceOrder(cfg) ==
    <<"db", "wordpress">>
    \o (IF Truthy(Prop(Get(cfg, "services"), "s3proxy")) THEN <<"s3proxy">> ELSE <<>>)
    \o (IF Truthy(Prop(Get(cfg, "services"), "redis")) THEN <<"redis">> ELSE <<>>)

\* the keys of composeConfig.services
ServiceNames(cfg) ==
    {"db", "wordpress"}
    \cup (IF Truthy(Prop(Get(cfg, "services"), "s3proxy")) THEN {"s3proxy"} ELSE {})
    \cup (IF Truthy(Prop(Get(cfg, "services"), "redis")) THEN {"redis"} ELSE {})

generateComposeConfig(cfg, cwd) ==
    IF ComposeThrows(cfg) THEN ThrewDescriptor
    ELSE
    LET projectName == ProjectNameOrDefault(cfg)
        dbVolume    == dbVolumeName(projectName)
        wpVolume    == wpVolumeName(projectName)
        names       == ServiceNames(cfg)
    IN  [ state    |-> "compiled",
          services |-> [n \in names |->
                           CASE n = "db"        -> generateDbService(cfg, dbVolume)
                             [] n = "wordpress" -> generateWordPressService(cfg, wpVolume, cwd)
                             [] n = "s3proxy"   -> generateS3ProxyService(cfg)
                             [] n = "redis"     -> generateRedisService(cfg)],
          networks |-> {"wp-network"},
          \* volumes: { [dbVolumeName]: null, [wpVolumeName]: null }
          volumes  |-> { [key |-> dbVolume, spec |-> Null], [key |-> wpVolume, spec |-> Null] },
          \* the order of the keys of the objects, which yaml.dump follows
          order    |-> [ services    |-> ServiceOrder(cfg),
                         environment |-> EnvironmentOrder(cfg),
                         volumes     |-> <<dbVolume, wpVolume>> ] ]

\* the content writeComposeFile writes: a header comment and the YAML document
writeComposeFile(composeCfg) ==
    [state  |-> "written",
     header |-> <<"# Generated by buwp-local",
                  "# Do not edit this file directly - it will be overwritten",
                  "# Edit .buwp-local.json instead">>,
     yaml   |-> composeCfg]

---------------------------------------------------------------------------
(* State of a command and of the machine it runs on.                       *)

NotValidated == << <<"not-validated">> >>
\* validateConfig threw instead of returning
ValidationThrew == << <<"threw">> >>
NoReport     == <<"<no-report>">>
\* there is no second project directory
NoDirectory  == [dirName |-> <<>>]
NoOptions    == [xdebug |-> FALSE, noS3 |-> FALSE, noRedis |-> FALSE,
                 all |-> FALSE, preserveWpbuild |-> FALSE]

CommandReset ==
    /\ exitCode' = "none"
    /\ validation' = NotValidated
    /\ reportedMissing' = NoReport
    /\ trulyMissing' = {}
    /\ tempEnvPath' = 0
    /\ composeWrites' = 0
    /\ upCalls' = 0

\* watch-jobs has not been invoked
NoWatch ==
    /\ watchPc = "shell"
    /\ isShuttingDown = FALSE
    /\ timerArmed = FALSE
    /\ started = 0
    /\ observed = 0
    /\ startedAtSignal = 0
    /\ childRunning = FALSE
    /\ watchQuiet = FALSE
    /\ interval = 0
    /\ lastResult = "none"
    /\ watchExit = "none"

NoCredentialsFile == {<< <<"?">>, <<"no-credentials-file">> >>}
NotParsed == [kind |-> "none"]

\* parseCredentialsFile has not been called
NoParse ==
    /\ credentialsFile = NoCredentialsFile
    /\ parseResult = NotParsed

NoInitOptions == [force |-> FALSE, interactive |-> TRUE, isTTY |-> FALSE, type |-> "none"]

\* init has not been invoked
NoInit ==
    /\ initOptions = NoInitOptions
    /\ initOutcome = "none"

\* stop, destroy, logs, wp and shell have not been invoked
NoInvoke ==
    /\ composeCalls = {}

\* no record has been loaded in this process
NoAlias ==
    /\ defaultObject = DEFAULT_CONFIG
    /\ loadedRecords = <<>>

NoVaultOp     == [op |-> "none", key |-> "", value |-> <<>>, failed |-> {}]
NoVaultResult == [kind |-> "none", type |-> "none", value |-> <<>>]

\* no keychain function has been called; the keychain is empty
NoVault ==
    /\ platform = "darwin"
    /\ vault = <<>>
    /\ vaultOp = NoVaultOp
    /\ vaultResult = NoVaultResult
    /\ vaultCalls = 0

\* the values the command variables have when no command has run
NoCommand ==
    /\ NoWatch
    /\ NoAlias
    /\ NoInvoke
    /\ NoInit
    /\ NoParse
    /\ NoVault
    /\ composeFile = NoDescriptor
    /\ keychain = {}
    /\ tempFiles = {}
    /\ dockerVolumes = {}
    /\ hostsWarningShown = FALSE
    /\ otherDir = NoDirectory
    /\ upLog = <<>>
    /\ commandsRun = 0
    /\ cmd = "none"
    /\ pc = "shell"
    /\ opts = NoOptions
    /\ exitCode = "none"
    /\ validation = NotValidated
    /\ reportedMissing = NoReport
    /\ trulyMissing = {}
    /\ tempEnvPath = 0
    /\ composeWrites = 0
    /\ upCalls = 0

---------------------------------------------------------------------------
(* Inputs of the deepMerge specification.                                  *)

MergeLeaves == {Null, Num("1"), StrVal(<<"x">>), ArrVal(<<"p">>), ArrVal(<<"q", "r">>)}

MergeInner ==
    MergeLeaves \cup {EmptyObj}
    \cup {Wrap(k, l) : k \in {"c", "d"}, l \in {Num("1"), Num("2"), ArrVal(<<"q", "r">>)}}
    \cup {Wrap("c", Num("1")) \cup Wrap("d", Num("2"))}

MergeObjects ==
    {EmptyObj}
    \cup {Wrap("a", x) : x \in MergeInner}
    \cup {Wrap("a", x) \cup Wrap("b", y) : x \in MergeInner, y \in MergeLeaves}

InitMerge ==
    /\ mTarget \in MergeObjects
    /\ mSource \in MergeObjects
    /\ mOutput = NotYet
    /\ dirName = <<>>
    /\ configFile = NoFile
    /\ envFile = NoEnvFile
    /\ config = NotYet
    /\ composeConfig = NoDescriptor
    /\ NoCommand

DeepMergeCall ==
    /\ mOutput = NotYet
    /\ mOutput' = deepMerge(mTarget, mSource)
    /\ UNCHANGED <<mTarget, mSource, fsVars, config, composeConfig, worldVars, cmdVars, auxVars>>

NextMerge == DeepMergeCall

SpecMerge == InitMerge /\ [][NextMerge]_vars

---------------------------------------------------------------------------
(* Inputs of the loadConfig specification.                                 *)

NameAlphabet == {"a", "B", "7", "-", "_", "@"}
Names        == SeqsUpTo(NameAlphabet, MaxNameLen)

\* .buwp-local.json bodies, without projectName
FileFull ==
    Wrap("hostname", StrVal(<<"site.local">>))
    \cup Wrap("services", Wrap("redis", FalseVal))
    \cup Wrap("ports", Wrap("http", Num("8080")))
    \cup Wrap("db", Wrap("password", StrVal(<<"filepw">>)))
    \cup Wrap("s3", Wrap("bucket", StrVal(<<"filebucket">>))
                    \cup Wrap("region", StrVal(<<"us-west-2">>)))

FileBodies ==
    { EmptyObj,
      FileFull,
      Wrap("services", FalseVal) \cup Wrap("multisite", FalseVal),
      Wrap("mappings", ArrVal(<<"m1">>)) \cup Wrap("env", Wrap("WP_DEBUG", TrueVal)) }

LoadEnvFiles ==
    { NoEnvFile,
      <<>>,
      << <<"WORDPRESS_DB_PASSWORD", "=", "envpw">> >>,
      << <<"S3_UPLOADS_BUCKET", "=", "envbucket">>,
         <<"#", "WORDPRESS_DB_PASSWORD", "=", "old">> >>,
      << <<"DB_ROOT_PASSWORD", "=", "first">>, <<"DB_ROOT_PASSWORD", "=", "second">>,
         <<"S3_UPLOADS_REGION", "=">> >> }

InitLoad ==
    /\ mTarget = NotYet /\ mSource = NotYet /\ mOutput = NotYet
    /\ envFile \in LoadEnvFiles
    /\ \/ /\ dirName \in Names \ {<<>>}
          /\ configFile \in {NoFile, Malformed} \cup FileBodies
       \/ /\ dirName = <<"d", "i", "r">>
          /\ configFile \in
                {SetKey(b, "projectName", StrVal(n)) : b \in {EmptyObj, FileFull}, n \in Names}
                \cup {Wrap("projectName", Num("5"))}
    /\ config = NotYet
    /\ composeConfig = NoDescriptor
    /\ NoCommand

LoadConfigCall ==
    /\ config = NotYet
    /\ config' = loadConfig(dirName, configFile, envFile)
    /\ UNCHANGED <<mergeVars, fsVars, composeConfig, worldVars, cmdVars, auxVars>>

NextLoad == LoadConfigCall

SpecLoad == InitLoad /\ [][NextLoad]_vars

---------------------------------------------------------------------------
(* Inputs of the generateComposeConfig specification: resolved             *)
(* configurations, as loadConfig returns them.                             *)

CompileNames == { <<"a">>, <<"d", "b">>, <<"w", "p">>, <<"s", "-", "1">> }

\* process.cwd() of a command run in the project directory
Cwd(basename) == <<"/", "work", "/">> \o basename

Toggles(off) == IF off = {} THEN EmptyObj
                ELSE Wrap("services", UNION {Wrap(x, FalseVal) : x \in off})

FileCredentials ==
    { EmptyObj,
      Wrap("db", Wrap("password", StrVal(<<"file-db-secret">>)))
      \cup Wrap("s3", Wrap("bucket", StrVal(<<"bucket-1">>))
                      \cup Wrap("accessKeyId", StrVal(<<"AKIA-file">>))
                      \cup Wrap("secretAccessKey", StrVal(<<"file-s3-secret">>)))
      \cup Wrap("shibboleth", Wrap("spKey", StrVal(<<"file-sp-key">>))) }

FileExtras ==
    { EmptyObj,
      Wrap("env", Wrap("SP_ENTITY_ID", StrVal(<<"custom-entity">>))
                  \cup Wrap("WORDPRESS_DB_HOST", StrVal(<<"custom-host">>))
                  \cup Wrap("WORDPRESS_CONFIG_EXTRA", StrVal(<<"custom-extra">>))),
      Wrap("env", Wrap("WP_DEBUG", TrueVal) \cup Wrap("MY_VAR", StrVal(<<"mine">>)))
      \cup Wrap("mappings", ArrVal(<<"m1", "m2">>))
      \cup Wrap("multisite", FalseVal) }

\* the union of objects that share no top-level key
Join(a, b) == IF a = EmptyObj THEN b ELSE IF b = EmptyObj THEN a ELSE a \cup b

CompileFiles ==
    { Join(Join(Toggles(off), c), x) :
        off \in SUBSET {"redis", "s3proxy", "shibboleth"},
        c \in FileCredentials, x \in FileExtras }

CompileEnvFiles ==
    { NoEnvFile,
      << <<"WORDPRESS_DB_PASSWORD", "=", "env-db-secret">>,
         <<"DB_ROOT_PASSWORD", "=", "env-root-secret">> >>,
      << <<"S3_UPLOADS_SECRET_ACCESS_KEY", "=", "env-s3-secret">>,
         <<"OLAP", "=", "olap-name">>, <<"SHIB_SP_CERT", "=", "env-sp-cert">> >> }

InitCompile ==
    /\ mTarget = NotYet /\ mSource = NotYet /\ mOutput = NotYet
    /\ dirName \in CompileNames
    /\ configFile \in CompileFiles
    /\ envFile \in CompileEnvFiles
    /\ config = loadConfig(dirName, configFile, envFile)
    /\ composeConfig = NoDescriptor
    /\ NoCommand

GenerateComposeConfigCall ==
    /\ composeConfig = NoDescriptor
    /\ composeConfig' = generateComposeConfig(config, Cwd(dirName))
    /\ UNCHANGED <<mergeVars, fsVars, config, worldVars, cmdVars, auxVars>>

\* generateComposeFile(config, projectPath): compiles and writes the file
GenerateComposeFileCall ==
    /\ composeFile = NoDescriptor
    /\ LET composeCfg == generateComposeConfig(config, Cwd(dirName))
       IN  IF composeCfg = ThrewDescriptor
           THEN UNCHANGED composeFile
           ELSE composeFile' = writeComposeFile(composeCfg)
    /\ UNCHANGED <<mergeVars, fsVars, config, composeConfig, keychain, tempFiles,
                   dockerVolumes, hostsWarningShown, otherDir, upLog, commandsRun, cmdVars,
                   auxVars>>

NextCompile == GenerateComposeConfigCall \/ GenerateComposeFileCall

SpecCompile == InitCompile /\ [][NextCompile]_vars

---------------------------------------------------------------------------
(* Inputs of the validateConfig specification: resolved configurations.    *)

ValidateImages   == { EmptyObj, Wrap("image", Null), Wrap("image", StrVal(<<>>)) }
ValidateHosts    == { EmptyObj, Wrap("hostname", Null) }
ValidateMappings ==
    { EmptyObj } \cup
    { Wrap("mappings", ArrVal(ms)) :
        ms \in { <<"m1">>, <<"m3">>, <<"m4">>, <<"m5">>, <<"m1", "m2">>, <<"m1", "m4">>,
                 <<"m1", "mnull">> } }
ValidatePorts ==
    { EmptyObj, Wrap("ports", Null), Wrap("ports", Wrap("db", Num("0")) \cup Wrap("redis", Num("65536"))) }
    \cup { Wrap("ports", Wrap("http", x)) :
             x \in { Num("99999"), Num("65535"), Num("1"), Num("0.5"), Num("80.5"),
                     Num("65535.5"), StrVal(<<"80">>), Null } }

ValidateFiles ==
    { Join(Join(i, h), Join(m, p)) :
        i \in ValidateImages, h \in ValidateHosts, m \in ValidateMappings, p \in ValidatePorts }

InitValidate ==
    /\ mTarget = NotYet /\ mSource = NotYet /\ mOutput = NotYet
    /\ dirName = <<"s", "-", "1">>
    /\ configFile \in ValidateFiles
    /\ envFile = NoEnvFile
    /\ config = loadConfig(dirName, configFile, envFile)
    /\ composeConfig = NoDescriptor
    /\ NoCommand

ValidateConfigCall ==
    /\ validation = NotValidated
    /\ validation' = IF ValidateThrows(config) THEN ValidationThrew ELSE validateConfig(config)
    /\ UNCHANGED <<mergeVars, fsVars, config, composeConfig, worldVars, cmd, pc, opts,
                   exitCode, reportedMissing, trulyMissing, tempEnvPath, composeWrites,
                   upCalls, auxVars>>

NextValidate == ValidateConfigCall

SpecValidate == InitValidate /\ [][NextValidate]_vars

---------------------------------------------------------------------------
(* lib/commands/start.js and lib/commands/update.js.                       *)

MaxCommands == 2

REQUIRED_CREDENTIALS == <<"WORDPRESS_DB_PASSWORD", "DB_ROOT_PASSWORD">>

\* the credential keys a keychain of the model may hold
KeychainKeys == {"WORDPRESS_DB_PASSWORD", "DB_ROOT_PASSWORD", "S3_UPLOADS_BUCKET"}

\* lib/config.js: the keys of the object of credentials read from the keychain
loadKeychainCredentials(stored) == stored

\* lib/config.js: a fresh directory under .buwp-local holding the file
createSecureTempEnvFile(files, invocation) == files \cup {invocation}

\* lib/config.js: unlink the file when it exists
secureDeleteTempEnvFile(files, filePath) == files \ {filePath}

\* envContent.includes(`${key}=`): the text key= occurs somewhere in the file
EnvContentIncludes(lines, key) ==
    \E i \in 1..Len(lines) :
        \E j \in 1..(Len(lines[i]) - 1) : lines[i][j] = key /\ lines[i][j + 1] = "="

\* the missing array validateCredentials returns
validateCredentials(keychainCreds, lines) ==
    SelectSeq(REQUIRED_CREDENTIALS,
              LAMBDA key : /\ key \notin keychainCreds
                           /\ ~(lines # NoEnvFile /\ EnvContentIncludes(lines, key)))

\* a validation result that is valid whatever the errors
ValidationValidAlways(errors) == TRUE
\* validation.valid: errors.length === 0
ValidationValid(errors) == errors = <<>>

\* assigning a property of v throws a TypeError (strict mode)
AssignThrows(v) == ~isObject(v) /\ ~IsArray(v)

\* the command-line overrides of start throw
OptionsThrow(cfg, o) ==
    \/ o.xdebug /\ Truthy(Get(cfg, "env")) /\ AssignThrows(Get(cfg, "env"))
    \/ (o.noS3 \/ o.noRedis) /\ AssignThrows(Get(cfg, "services"))

\* the configuration after the command-line overrides of start
ApplyOptions(cfg, o) ==
    LET withXdebug ==
            IF o.xdebug /\ ~IsArray(Get(cfg, "env"))
            THEN SetKey(cfg, "env", SetKey(OrElse(Get(cfg, "env"), EmptyObj), "XDEBUG", TrueVal))
            ELSE cfg
        withS3 ==
            IF o.noS3 /\ isObject(Get(withXdebug, "services"))
            THEN SetKey(withXdebug, "services",
                        SetKey(Get(withXdebug, "services"), "s3proxy", FalseVal))
            ELSE withXdebug
    IN  IF o.noRedis /\ isObject(Get(withS3, "services"))
        THEN SetKey(withS3, "services", SetKey(Get(withS3, "services"), "redis", FalseVal))
        ELSE withS3

\* docker compose -p project: the name of the volume created for a
\* top-level volumes entry (prefixed unless the entry carries a name)
ComposeVolumeName(project, volume) ==
    IF Truthy(Prop(volume.spec, "name"))
    THEN ToText(Prop(volume.spec, "name"))
    ELSE project \o <<"_">> \o volume.key

\* the volumes docker compose -p project up creates for a descriptor file
VolumesOf(project, file) == {ComposeVolumeName(project, v) : v \in file.yaml.volumes}

\* the name of the database volume built the same way
updateDbVolumeName(projectName) == dbVolumeName(projectName)

\* lib/commands/update.js: the name passed to docker volume rm
updateWpVolumeName(projectName) ==
    projectName \o <<"_", "w", "p", "_", "b", "u", "i", "l", "d">>

StartOptions ==
    { NoOptions,
      [NoOptions EXCEPT !.xdebug = TRUE],
      [NoOptions EXCEPT !.noS3 = TRUE, !.noRedis = TRUE] }

UpdateOptions ==
    { NoOptions,
      [NoOptions EXCEPT !.all = TRUE],
      [NoOptions EXCEPT !.preserveWpbuild = TRUE] }

\* process.exit(code), or the return of the command
Exit(code) == pc' = "done" /\ exitCode' = code

inputVars == <<mergeVars, fsVars>>

\* buwp-local start is invoked from the shell
StartBegin ==
    /\ pc \in {"shell", "done"}
    /\ commandsRun < MaxCommands
    /\ commandsRun' = commandsRun + 1
    /\ cmd' = "start"
    /\ pc' = "load"
    /\ \E o \in StartOptions : opts' = o
    /\ CommandReset
    /\ config' = NotYet
    /\ composeConfig' = NoDescriptor
    /\ UNCHANGED <<inputVars, auxVars, composeFile, keychain, tempFiles, dockerVolumes, otherDir, upLog,
                   hostsWarningShown>>

\* loadConfig and the command-line overrides
StartLoad ==
    /\ cmd = "start" /\ pc = "load"
    /\ LET loaded == loadConfig(dirName, configFile, envFile)
       IN  IF loaded = Threw \/ OptionsThrow(loaded, opts)
           THEN Exit("1") /\ UNCHANGED config
           ELSE config' = ApplyOptions(loaded, opts) /\ pc' = "validate"
                /\ UNCHANGED exitCode
    /\ UNCHANGED <<inputVars, auxVars, composeConfig, worldVars, cmd, opts, validation,
                   reportedMissing, trulyMissing, tempEnvPath, composeWrites, upCalls>>

\* validateConfig; a validation error ends the command
StartValidate ==
    /\ cmd = "start" /\ pc = "validate"
    /\ IF ValidateThrows(config)
       THEN Exit("1") /\ UNCHANGED validation
       ELSE LET errors == validateConfig(config)
            IN  /\ validation' = errors
                /\ IF ValidationValid(errors)
                   THEN pc' = "credentials" /\ UNCHANGED exitCode
                   ELSE Exit("1")
    /\ UNCHANGED <<inputVars, auxVars, config, composeConfig, worldVars, cmd, opts,
                   reportedMissing, trulyMissing, tempEnvPath, composeWrites, upCalls>>

\* the required keys defined neither in the keychain nor in .env.local
RequiredAbsent(stored, lines) ==
    {REQUIRED_CREDENTIALS[i] : i \in
        {j \in 1..Len(REQUIRED_CREDENTIALS) :
            /\ REQUIRED_CREDENTIALS[j] \notin stored
            /\ ~(lines # NoEnvFile /\ DotenvDefines(lines, REQUIRED_CREDENTIALS[j]))}}

\* the credential check, the prompt and the keychain setup
StartCredentials ==
    /\ cmd = "start" /\ pc = "credentials"
    /\ LET missing == validateCredentials(loadKeychainCredentials(keychain), envFile)
       IN  IF missing = <<>>
           THEN /\ pc' = "hosts"
                /\ UNCHANGED <<keychain, exitCode, reportedMissing, trulyMissing>>
           ELSE \/ \* the user declines the setup, or keychainCommand exits
                   /\ reportedMissing' = missing
                   /\ trulyMissing' = RequiredAbsent(keychain, envFile)
                   /\ Exit("1")
                   /\ UNCHANGED keychain
                \/ \* the setup stores some credentials
                   \E stored \in SUBSET KeychainKeys :
                       /\ keychain \subseteq stored
                       /\ keychain' = stored
                       /\ LET again == validateCredentials(loadKeychainCredentials(stored),
                                                           envFile)
                          IN  IF again = <<>>
                              THEN /\ reportedMissing' = missing
                                   /\ trulyMissing' = RequiredAbsent(keychain, envFile)
                                   /\ pc' = "hosts"
                                   /\ UNCHANGED exitCode
                              ELSE /\ reportedMissing' = again
                                   /\ trulyMissing' = RequiredAbsent(stored, envFile)
                                   /\ Exit("1")
    /\ UNCHANGED <<inputVars, auxVars, config, composeConfig, composeFile, tempFiles,
                   dockerVolumes, otherDir, upLog, hostsWarningShown, commandsRun, cmd, opts, validation,
                   tempEnvPath, composeWrites, upCalls>>

\* the /etc/hosts check and its prompt
StartHosts ==
    /\ cmd = "start" /\ pc = "hosts"
    /\ \/ \* the warning was shown before, or the hostname is in /etc/hosts
          /\ pc' = "generate"
          /\ UNCHANGED <<exitCode, hostsWarningShown>>
       \/ \* the hostname is not found and the user continues
          /\ ~hostsWarningShown
          /\ hostsWarningShown' = TRUE
          /\ pc' = "generate"
          /\ UNCHANGED exitCode
       \/ \* the hostname is not found and the user cancels
          /\ ~hostsWarningShown
          /\ Exit("0")
          /\ UNCHANGED hostsWarningShown
    /\ UNCHANGED <<inputVars, auxVars, config, composeConfig, composeFile, keychain, tempFiles,
                   dockerVolumes, otherDir, upLog, commandsRun, cmd, opts, validation, reportedMissing,
                   trulyMissing, tempEnvPath, composeWrites, upCalls>>

\* generateComposeFile
StartGenerate ==
    /\ cmd = "start" /\ pc = "generate"
    /\ LET composeCfg == generateComposeConfig(config, Cwd(dirName))
       IN  IF composeCfg = ThrewDescriptor
           THEN Exit("1") /\ UNCHANGED <<composeConfig, composeFile, composeWrites>>
           ELSE /\ composeConfig' = composeCfg
                /\ composeFile' = writeComposeFile(composeCfg)
                /\ composeWrites' = composeWrites + 1
                /\ pc' = "docker-info"
                /\ UNCHANGED exitCode
    /\ UNCHANGED <<inputVars, auxVars, config, keychain, tempFiles, dockerVolumes, otherDir, upLog,
                   hostsWarningShown, commandsRun, cmd, opts, validation,
                   reportedMissing, trulyMissing, tempEnvPath, upCalls>>

\* docker info
DockerInfo(next) ==
    /\ \/ pc' = next /\ UNCHANGED exitCode
       \/ Exit("1")
    /\ UNCHANGED <<inputVars, auxVars, config, composeConfig, worldVars, cmd, opts, validation,
                   reportedMissing, trulyMissing, tempEnvPath, composeWrites, upCalls>>

StartDockerInfo == cmd = "start" /\ pc = "docker-info" /\ DockerInfo("stage")

\* the keychain credentials are staged in a temporary env file
Stage ==
    /\ IF loadKeychainCredentials(keychain) # {}
       THEN \/ /\ tempEnvPath' = commandsRun
               /\ tempFiles' = createSecureTempEnvFile(tempFiles, commandsRun)
            \/ \* createSecureTempEnvFile throws
               UNCHANGED <<tempEnvPath, tempFiles>>
       ELSE UNCHANGED <<tempEnvPath, tempFiles>>
    /\ pc' = "up"
    /\ UNCHANGED <<inputVars, auxVars, config, composeConfig, composeFile, keychain,
                   dockerVolumes, otherDir, upLog, hostsWarningShown, commandsRun, cmd, opts, exitCode,
                   validation, reportedMissing, trulyMissing, composeWrites, upCalls>>

StartStage == cmd = "start" /\ pc = "stage" /\ Stage

\* docker compose up inside try / catch / finally
Up ==
    /\ upCalls' = upCalls + 1
    /\ upLog' = Append(upLog, [project |-> ProjectNameOrDefault(config),
                               dir     |-> dirName,
                               file    |-> composeFile])
    /\ \/ \* up succeeds; the finally block purges the staged file
          /\ dockerVolumes' =
                dockerVolumes \cup VolumesOf(ProjectNameOrDefault(config), composeFile)
          /\ tempFiles' = IF tempEnvPath # 0
                          THEN secureDeleteTempEnvFile(tempFiles, tempEnvPath)
                          ELSE tempFiles
          /\ Exit("0")
       \/ \* up fails; the catch block calls process.exit(1), which ends the
          \* process before the finally block runs
          /\ UNCHANGED <<dockerVolumes, tempFiles>>
          /\ Exit("1")
    /\ UNCHANGED <<inputVars, auxVars, config, composeConfig, composeFile, keychain,
                   hostsWarningShown, otherDir, commandsRun, cmd, opts, validation,
                   reportedMissing, trulyMissing, tempEnvPath, composeWrites>>

StartUp == cmd = "start" /\ pc = "up" /\ Up

\* buwp-local update is invoked from the shell
UpdateBegin ==
    /\ pc \in {"shell", "done"}
    /\ commandsRun < MaxCommands
    /\ commandsRun' = commandsRun + 1
    /\ cmd' = "update"
    /\ pc' = "check"
    /\ \E o \in UpdateOptions : opts' = o
    /\ CommandReset
    /\ config' = NotYet
    /\ composeConfig' = NoDescriptor
    /\ UNCHANGED <<inputVars, auxVars, composeFile, keychain, tempFiles, dockerVolumes, otherDir, upLog,
                   hostsWarningShown>>

\* the descriptor file must exist; loadConfig
UpdateLoad ==
    /\ cmd = "update" /\ pc = "check"
    /\ IF composeFile = NoDescriptor
       THEN Exit("0") /\ UNCHANGED config
       ELSE LET loaded == loadConfig(dirName, configFile, envFile)
            IN  IF loaded = Threw
                THEN Exit("1") /\ UNCHANGED config
                ELSE config' = loaded /\ pc' = "docker-info" /\ UNCHANGED exitCode
    /\ UNCHANGED <<inputVars, auxVars, composeConfig, worldVars, cmd, opts, validation,
                   reportedMissing, trulyMissing, tempEnvPath, composeWrites, upCalls>>

UpdateDockerInfo == cmd = "update" /\ pc = "docker-info" /\ DockerInfo("pull")

\* docker compose pull
UpdatePull == cmd = "update" /\ pc = "pull" /\ DockerInfo("down")

\* docker compose down, without -v
UpdateDown == cmd = "update" /\ pc = "down" /\ DockerInfo("volume-rm")

\* docker volume rm, unless --preserve-wpbuild; a failure is ignored
UpdateVolumeRm ==
    /\ cmd = "update" /\ pc = "volume-rm"
    /\ dockerVolumes' =
          IF opts.preserveWpbuild THEN dockerVolumes
          ELSE dockerVolumes \ {updateWpVolumeName(ProjectNameOrDefault(config))}
    /\ pc' = "stage"
    /\ UNCHANGED <<inputVars, auxVars, config, composeConfig, composeFile, keychain, tempFiles,
                   hostsWarningShown, otherDir, upLog, commandsRun, cmd, opts, exitCode, validation,
                   reportedMissing, trulyMissing, tempEnvPath, composeWrites, upCalls>>

UpdateStage == cmd = "update" /\ pc = "stage" /\ Stage

UpdateUp == cmd = "update" /\ pc = "up" /\ Up

\* .buwp-local.json files of the command specification
CommandFiles ==
    { NoFile,
      Malformed,
      Wrap("mappings", ArrVal(<<"m1">>)) \cup Wrap("env", Wrap("WP_DEBUG", TrueVal)),
      Wrap("ports", Wrap("http", Num("99999"))),
      Wrap("mappings", ArrVal(<<"m4", "m3">>)),
      Wrap("services", FalseVal) }

CommandEnvFiles ==
    { NoEnvFile,
      << <<"WORDPRESS_DB_PASSWORD", "=", "env-db-secret">>,
         <<"DB_ROOT_PASSWORD", "=", "env-root-secret">> >>,
      << <<"#", "WORDPRESS_DB_PASSWORD", "=", "old">>,
         <<"DB_ROOT_PASSWORD", "=", "env-root-secret">> >>,
      << <<"WORDPRESS_DB_PASSWORD", "=", "env-db-secret">>,
         <<"MY_", "DB_ROOT_PASSWORD", "=", "other">> >>,
      << <<"S3_UPLOADS_REGION", "=", "us-east-1">> >> }

\* the volumes the docker daemon holds before the first command: none, or
\* volumes of these names that something else created
ExistingVolumes ==
    { {}, {wpVolumeName(<<"s", "-", "1">>), dbVolumeName(<<"s", "-", "1">>)} }

Keychains == { {}, {"S3_UPLOADS_BUCKET"}, {"WORDPRESS_DB_PASSWORD"},
               {"WORDPRESS_DB_PASSWORD", "DB_ROOT_PASSWORD"} }

Init ==
    /\ mTarget = NotYet /\ mSource = NotYet /\ mOutput = NotYet
    /\ dirName = <<"s", "-", "1">>
    /\ configFile \in CommandFiles
    /\ envFile \in CommandEnvFiles
    /\ config = NotYet
    /\ composeConfig = NoDescriptor
    /\ composeFile = NoDescriptor
    /\ keychain \in Keychains
    /\ tempFiles = {}
    /\ dockerVolumes \in ExistingVolumes
    /\ hostsWarningShown = FALSE
    /\ otherDir = NoDirectory
    /\ upLog = <<>>
    /\ commandsRun = 0
    /\ cmd = "none"
    /\ pc = "shell"
    /\ opts = NoOptions
    /\ exitCode = "none"
    /\ validation = NotValidated
    /\ reportedMissing = NoReport
    /\ trulyMissing = {}
    /\ tempEnvPath = 0
    /\ composeWrites = 0
    /\ upCalls = 0
    /\ NoWatch
    /\ NoAlias
    /\ NoInvoke
    /\ NoInit
    /\ NoParse
    /\ NoVault

Next ==
    \/ StartBegin \/ StartLoad \/ StartValidate \/ StartCredentials \/ StartHosts
    \/ StartGenerate \/ StartDockerInfo \/ StartStage \/ StartUp
    \/ UpdateBegin \/ UpdateLoad \/ UpdateDockerInfo \/ UpdatePull \/ UpdateDown
    \/ UpdateVolumeRm \/ UpdateStage \/ UpdateUp

Spec == Init /\ [][Next]_vars

---------------------------------------------------------------------------
(* Two project directories that share one projectName.                     *)

\* the shell changes to the other project directory (process.cwd())
ChangeDirectory ==
    /\ pc \in {"shell", "done"}
    /\ otherDir # NoDirectory
    /\ dirName' = otherDir.dirName
    /\ configFile' = otherDir.configFile
    /\ envFile' = otherDir.envFile
    /\ composeFile' = otherDir.composeFile
    /\ hostsWarningShown' = otherDir.hostsWarningShown
    /\ otherDir' = [dirName |-> dirName, configFile |-> configFile, envFile |-> envFile,
                    composeFile |-> composeFile, hostsWarningShown |-> hostsWarningShown]
    /\ UNCHANGED <<mergeVars, auxVars, config, composeConfig, keychain, tempFiles, dockerVolumes,
                   upLog, commandsRun, cmdVars>>

SharedName == Wrap("projectName", StrVal(<<"s", "h">>))

SharedFilesA ==
    { SharedName \cup Wrap("mappings", ArrVal(<<"m1">>)),
      SharedName \cup Wrap("mappings", ArrVal(<<"m1">>))
                 \cup Wrap("env", Wrap("WP_DEBUG", TrueVal)) }

SharedFilesB ==
    { SharedName \cup Wrap("mappings", ArrVal(<<"m2">>)),
      SharedName \cup Wrap("mappings", ArrVal(<<"m2">>))
                 \cup Wrap("services", Wrap("redis", FalseVal)) }

SharedEnvFile ==
    << <<"WORDPRESS_DB_PASSWORD", "=", "env-db-secret">>,
       <<"DB_ROOT_PASSWORD", "=", "env-root-secret">> >>

InitShared ==
    /\ mTarget = NotYet /\ mSource = NotYet /\ mOutput = NotYet
    /\ dirName = <<"a">>
    /\ configFile \in SharedFilesA
    /\ envFile = SharedEnvFile
    /\ config = NotYet
    /\ composeConfig = NoDescriptor
    /\ composeFile = NoDescriptor
    /\ keychain \in {{}, {"WORDPRESS_DB_PASSWORD", "DB_ROOT_PASSWORD"}}
    /\ tempFiles = {}
    /\ dockerVolumes = {}
    /\ hostsWarningShown = FALSE
    /\ \E f \in SharedFilesB :
           otherDir = [dirName |-> <<"b">>, configFile |-> f, envFile |-> SharedEnvFile,
                       composeFile |-> NoDescriptor, hostsWarningShown |-> FALSE]
    /\ upLog = <<>>
    /\ commandsRun = 0
    /\ cmd = "none"
    /\ pc = "shell"
    /\ opts = NoOptions
    /\ exitCode = "none"
    /\ validation = NotValidated
    /\ reportedMissing = NoReport
    /\ trulyMissing = {}
    /\ tempEnvPath = 0
    /\ composeWrites = 0
    /\ upCalls = 0
    /\ NoWatch
    /\ NoAlias
    /\ NoInvoke
    /\ NoInit
    /\ NoParse
    /\ NoVault

NextShared ==
    \/ ChangeDirectory
    \/ StartBegin \/ StartLoad \/ StartValidate \/ StartCredentials \/ StartHosts
    \/ StartGenerate \/ StartDockerInfo \/ StartStage \/ StartUp

SpecShared == InitShared /\ [][NextShared]_vars

---------------------------------------------------------------------------
(* lib/commands/watch-jobs.js: the job watcher.                            *)

\* most processJobs invocations one run of the watcher starts
MaxInvocations == 3

DEFAULT_INTERVAL == 60
MIN_INTERVAL == 10

\* what parseInt and the interval checks yield for a value that is no number
NaN == -1

\* parseInt(text, 10) of the --interval values of the model
parseInt(t) == IF t \in {"5", "10", "30"} THEN NumeralValue(t) ELSE NaN

\* the interval is rejected: isNaN(interval) || interval < MIN_INTERVAL
InvalidInterval(n) == n = NaN \/ n < MIN_INTERVAL

\* priority: CLI flag > config file > default
WatchInterval(o, cfg) ==
    IF o.interval # "none" THEN parseInt(o.interval)
    ELSE IF Truthy(Get(cfg, "jobWatchInterval"))
         THEN LET n == NumeralValue(LeafOf(Get(cfg, "jobWatchInterval"))[2])
              IN  IF n < MIN_INTERVAL THEN MIN_INTERVAL ELSE n
         ELSE DEFAULT_INTERVAL

WatchOptions == [interval : {"none", "5", "30", "abc"}, quiet : BOOLEAN]

\* what docker compose exec ... process-jobs may do
ExecOutcomes == {"error", "jobs", "no-jobs"}

\* the value the processJobs promise resolves to
processJobs(outcome) == IF outcome = "jobs" THEN "true" ELSE "false"

\* process.exit(code) of the watcher: the process is gone, and its timer with it
WatchExit(code) ==
    /\ watchPc' = "exited"
    /\ watchExit' = code
    /\ timerArmed' = FALSE

\* watch(): returns at once when shutting down, else starts processJobs,
\* whose exec spawns the child, and suspends at the await
watch ==
    IF isShuttingDown
    THEN /\ watchPc' = "returned"
         /\ UNCHANGED <<started, childRunning>>
    ELSE /\ started' = started + 1
         /\ childRunning' = TRUE
         /\ watchPc' = "awaiting"

\* buwp-local watch-jobs, from the invocation to the first await
WatchBegin ==
    /\ watchPc = "shell"
    /\ \E o \in WatchOptions, dockerRunning \in BOOLEAN, containerRunning \in BOOLEAN :
          LET loaded == loadConfig(dirName, configFile, envFile)
              iv     == WatchInterval(o, loaded)
          IN  IF composeFile = NoDescriptor
              THEN /\ watchPc' = "returned"
                   /\ UNCHANGED <<config, started, childRunning, watchQuiet, interval,
                                  watchExit, timerArmed>>
              ELSE IF loaded = Threw
              THEN /\ WatchExit("1")
                   /\ UNCHANGED <<config, started, childRunning, watchQuiet, interval>>
              ELSE IF (o.interval # "none" /\ InvalidInterval(iv)) \/ ~dockerRunning
              THEN /\ WatchExit("1")
                   /\ config' = loaded
                   /\ UNCHANGED <<started, childRunning, watchQuiet, interval>>
              ELSE IF ~containerRunning
              THEN /\ watchPc' = "returned"
                   /\ config' = loaded
                   /\ UNCHANGED <<started, childRunning, watchQuiet, interval, watchExit,
                                  timerArmed>>
              ELSE /\ config' = loaded
                   /\ watchQuiet' = o.quiet
                   /\ interval' = iv
                   /\ watch
                   /\ UNCHANGED <<watchExit, timerArmed>>
    /\ UNCHANGED <<inputVars, vaultVars, aliasVars, invokeVars, initVars, parseVars, composeConfig, worldVars, cmdVars, isShuttingDown, observed,
                   startedAtSignal, lastResult>>

\* the exec callback resolves the promise and watch() resumes after its
\* await: it re-arms the timer unless the watcher is shutting down
ExecCallback ==
    /\ watchPc = "awaiting"
    /\ childRunning
    /\ \E outcome \in ExecOutcomes : lastResult' = processJobs(outcome)
    /\ childRunning' = FALSE
    /\ observed' = observed + 1
    /\ IF ~isShuttingDown
       THEN timerArmed' = TRUE /\ watchPc' = "sleeping"
       ELSE timerArmed' = FALSE /\ watchPc' = "returned"
    /\ UNCHANGED <<inputVars, vaultVars, aliasVars, invokeVars, initVars, parseVars, config, composeConfig, worldVars, cmdVars, isShuttingDown,
                   started, startedAtSignal, watchQuiet, interval, watchExit>>

\* a timer set too early: it fires like setInterval, whether or not the
\* previous result has been observed
TimerDueRepeating(position, armed) == position \in {"sleeping", "awaiting"}

\* the setTimeout(watch, interval * 1000) callback is due
TimerDue(position, armed) == position = "sleeping" /\ armed

\* the timer fires and calls watch()
TimerFires ==
    /\ TimerDue(watchPc, timerArmed)
    /\ started < MaxInvocations
    /\ timerArmed' = FALSE
    /\ watch
    /\ UNCHANGED <<inputVars, vaultVars, aliasVars, invokeVars, initVars, parseVars, config, composeConfig, worldVars, cmdVars, isShuttingDown,
                   observed, startedAtSignal, watchQuiet, interval, lastResult, watchExit>>

\* SIGINT or SIGTERM reaches the watcher once its handlers are installed:
\* shutdown() sets the flag and calls process.exit(0)
Signal ==
    /\ watchPc \in {"awaiting", "sleeping"}
    /\ IF isShuttingDown
       THEN UNCHANGED <<isShuttingDown, startedAtSignal, watchPc, watchExit, timerArmed>>
       ELSE /\ isShuttingDown' = TRUE
            /\ startedAtSignal' = started
            /\ WatchExit("0")
    /\ UNCHANGED <<inputVars, vaultVars, aliasVars, invokeVars, initVars, parseVars, config, composeConfig, worldVars, cmdVars, started, observed,
                   childRunning, watchQuiet, interval, lastResult>>

\* the child the watcher left behind ends; nothing observes its result
ChildEnds ==
    /\ watchPc = "exited"
    /\ childRunning
    /\ childRunning' = FALSE
    /\ UNCHANGED <<inputVars, vaultVars, aliasVars, invokeVars, initVars, parseVars, config, composeConfig, worldVars, cmdVars, watchPc,
                   isShuttingDown, timerArmed, started, observed, startedAtSignal,
                   watchQuiet, interval, lastResult, watchExit>>

WatchFiles == { NoFile, Malformed,
                Wrap("jobWatchInterval", Num("5")),
                Wrap("jobWatchInterval", Num("30")) }

InitWatch ==
    /\ mTarget = NotYet /\ mSource = NotYet /\ mOutput = NotYet
    /\ dirName = <<"w", "p">>
    /\ configFile \in WatchFiles
    /\ envFile = NoEnvFile
    /\ config = NotYet
    /\ composeConfig = NoDescriptor
    /\ composeFile \in
          {NoDescriptor,
           writeComposeFile(generateComposeConfig(loadConfig(dirName, NoFile, NoEnvFile),
                                                  Cwd(dirName)))}
    /\ keychain = {}
    /\ tempFiles = {}
    /\ dockerVolumes = {}
    /\ hostsWarningShown = FALSE
    /\ otherDir = NoDirectory
    /\ upLog = <<>>
    /\ commandsRun = 0
    /\ cmd = "none"
    /\ pc = "shell"
    /\ opts = NoOptions
    /\ exitCode = "none"
    /\ validation = NotValidated
    /\ reportedMissing = NoReport
    /\ trulyMissing = {}
    /\ tempEnvPath = 0
    /\ composeWrites = 0
    /\ upCalls = 0
    /\ NoWatch
    /\ NoAlias
    /\ NoInvoke
    /\ NoInit
    /\ NoParse
    /\ NoVault

NextWatch == WatchBegin \/ ExecCallback \/ TimerFires \/ Signal \/ ChildEnds

SpecWatch == InitWatch /\ [][NextWatch]_vars

---------------------------------------------------------------------------
(* The keychain adapter: setCredential, getCredential, hasCredential,      *)
(* deleteCredential, listCredentials.                                      *)

\* most keychain functions called in one behaviour
MaxVaultCalls == 2

CREDENTIAL_KEYS ==
    <<"WORDPRESS_DB_PASSWORD", "DB_ROOT_PASSWORD", "SP_ENTITY_ID", "IDP_ENTITY_ID",
      "SHIB_IDP_LOGOUT", "SHIB_SP_KEY", "SHIB_SP_CERT", "S3_UPLOADS_BUCKET",
      "S3_UPLOADS_REGION", "S3_UPLOADS_ACCESS_KEY_ID", "S3_UPLOADS_SECRET_ACCESS_KEY",
      "S3_ACCESS_RULES_TABLE", "OLAP", "OLAP_ACCT_NBR", "OLAP_REGION">>

MULTILINE_CREDENTIALS == <<"SHIB_SP_KEY", "SHIB_SP_CERT">>

isPlatformSupported == platform = "darwin"

\* a registry that accepts every key
isValidCredentialKeyAny(key) == TRUE

isValidCredentialKey(key) == InSeq(key, CREDENTIAL_KEYS)

\* a registry in which every key is multi-line-capable
isMultilineCredentialAny(key) == TRUE

isMultilineCredential(key) == InSeq(key, MULTILINE_CREDENTIALS)

\* the characters of the model's credential values and their hexadecimal codes
HexCode ==
    [ x |-> <<"7", "8">>, a |-> <<"6", "1">>, f |-> <<"6", "6">>, j |-> <<"6", "a">> ]
    @@ ("6" :> <<"3", "6">>) @@ ("1" :> <<"3", "1">>) @@ (" " :> <<"2", "0">>)
    @@ ("\n" :> <<"0", "a">>) @@ ("\"" :> <<"2", "2">>)

HexDigitChars ==
    Digits \cup {"a", "b", "c", "d", "e", "f", "A", "B", "C", "D", "E", "F"}

\* /^[0-9a-fA-F]+$/.test(value) && value.length % 2 === 0
isHexEncoded(value) ==
    /\ value # <<>>
    /\ \A i \in 1..Len(value) : value[i] \in HexDigitChars
    /\ Len(value) % 2 = 0

\* the character a pair of hex digits decodes to; a byte that is no
\* character of the model decodes to "?"
HexChar(hi, lo) ==
    IF \E c \in DOMAIN HexCode : HexCode[c] = <<toLowerCase(hi), toLowerCase(lo)>>
    THEN CHOOSE c \in DOMAIN HexCode : HexCode[c] = <<toLowerCase(hi), toLowerCase(lo)>>
    ELSE "?"

\* Buffer.from(value, 'hex').toString('utf8') of a value that isHexEncoded
HexDecode(value) == [i \in 1..(Len(value) \div 2) |-> HexChar(value[2 * i - 1], value[2 * i])]

RECURSIVE HexEncode(_)
HexEncode(value) ==
    IF value = <<>> THEN <<>> ELSE HexCode[Head(value)] \o HexEncode(Tail(value))

Whitespace == {" ", "\n"}

RECURSIVE TrimStart(_)
TrimStart(t) == IF t # <<>> /\ Head(t) \in Whitespace THEN TrimStart(Tail(t)) ELSE t

RECURSIVE TrimEnd(_)
TrimEnd(t) ==
    IF t # <<>> /\ t[Len(t)] \in Whitespace THEN TrimEnd(SubSeq(t, 1, Len(t) - 1)) ELSE t

\* String.prototype.trim
Trim(t) == TrimEnd(TrimStart(t))

\* the shell rejects -w "${value}" when the value holds an odd number of
\* double quotes
ShellRejects(value) == Len(SelectSeq(value, LAMBDA c : c = "\"")) % 2 = 1

\* the word the shell passes for "${value}": the quotes are removed
ShellWord(value) == SelectSeq(value, LAMBDA c : c # "\"")

\* what security find-generic-password -w prints: the password and a line
\* feed, or its hexadecimal form when the password holds a line feed
SecurityPrint(password) ==
    (IF InSeq("\n", password) THEN HexEncode(password) ELSE password) \o <<"\n">>

VaultThrew(error) == [kind |-> "threw", type |-> error, value |-> <<>>]
VaultReturned(type, value) == [kind |-> "returned", type |-> type, value |-> value]

VaultKeys == {"WORDPRESS_DB_PASSWORD", "SHIB_SP_KEY", "UNKNOWN_KEY"}

VaultValues == { <<"x">>, <<"6", "1">>, <<" ", "x">>, <<"x", "\n", "a">>, <<"x", "\"">> }

\* the key is kept in step with the keychain the commands read
Store(items) == vault' = items /\ keychain' = DOMAIN items

Without(items, key) == [k \in DOMAIN items \ {key} |-> items[k]]

Called(op, key, value, failed) ==
    /\ vaultCalls < MaxVaultCalls
    /\ vaultCalls' = vaultCalls + 1
    /\ vaultOp' = [op |-> op, key |-> key, value |-> value, failed |-> failed]
    /\ UNCHANGED <<mergeVars, fsVars, config, composeConfig, composeFile, tempFiles,
                   dockerVolumes, hostsWarningShown, otherDir, upLog, commandsRun, cmdVars,
                   watchVars, parseVars, initVars, invokeVars, aliasVars, platform>>

\* setCredential(key, value); the security command may fail
SetCredential ==
    \E key \in VaultKeys, value \in VaultValues, fails \in BOOLEAN :
        /\ Called("set", key, value, IF fails THEN {key} ELSE {})
        /\ IF ~isPlatformSupported
           THEN vaultResult' = VaultThrew("unsupported-platform") /\ Store(vault)
           ELSE IF ~isValidCredentialKey(key)
           THEN vaultResult' = VaultThrew("invalid-key") /\ Store(vault)
           ELSE IF fails \/ ShellRejects(value)
           THEN vaultResult' = VaultThrew("store-failed") /\ Store(vault)
           ELSE /\ vaultResult' = VaultReturned("undefined", <<>>)
                /\ Store((key :> ShellWord(value)) @@ vault)

\* getCredential(key)
GetCredential ==
    \E key \in VaultKeys, fails \in BOOLEAN :
        /\ Called("get", key, <<>>, IF fails THEN {key} ELSE {})
        /\ Store(vault)
        /\ vaultResult' =
              IF ~isPlatformSupported THEN VaultThrew("unsupported-platform")
              ELSE IF ~isValidCredentialKey(key) THEN VaultThrew("invalid-key")
              ELSE IF fails THEN VaultThrew("store-failed")
              ELSE IF key \notin DOMAIN vault THEN VaultReturned("null", <<>>)
              ELSE LET result == Trim(SecurityPrint(vault[key]))
                   IN  IF isMultilineCredential(key) /\ isHexEncoded(result)
                       THEN VaultReturned("string", HexDecode(result))
                       ELSE VaultReturned("string", result)

\* hasCredential(key)
HasCredential ==
    \E key \in VaultKeys, fails \in BOOLEAN :
        /\ Called("has", key, <<>>, IF fails THEN {key} ELSE {})
        /\ Store(vault)
        /\ vaultResult' =
              IF ~isPlatformSupported THEN VaultReturned("boolean", <<"false">>)
              ELSE IF ~isValidCredentialKey(key) THEN VaultReturned("boolean", <<"false">>)
              ELSE IF fails \/ key \notin DOMAIN vault THEN VaultReturned("boolean", <<"false">>)
              ELSE VaultReturned("boolean", <<"true">>)

\* deleteCredential(key)
DeleteCredential ==
    \E key \in VaultKeys, fails \in BOOLEAN :
        /\ Called("delete", key, <<>>, IF fails THEN {key} ELSE {})
        /\ IF ~isPlatformSupported
           THEN vaultResult' = VaultThrew("unsupported-platform") /\ Store(vault)
           ELSE IF ~isValidCredentialKey(key)
           THEN vaultResult' = VaultThrew("invalid-key") /\ Store(vault)
           ELSE IF fails
           THEN vaultResult' = VaultThrew("store-failed") /\ Store(vault)
           ELSE /\ vaultResult' = VaultReturned("undefined", <<>>)
                /\ Store(Without(vault, key))

\* listCredentials(): hasCredential on every key of the registry
ListCredentials ==
    \E failed \in SUBSET DOMAIN vault :
        /\ Called("list", "", <<>>, failed)
        /\ Store(vault)
        /\ vaultResult' =
              IF ~isPlatformSupported THEN VaultReturned("list", <<>>)
              ELSE VaultReturned("list",
                            SelectSeq(CREDENTIAL_KEYS,
                                      LAMBDA k : k \in DOMAIN vault /\ k \notin failed))

\* clearAllCredentials(): deleteCredential on every key of the registry;
\* a key that is not stored is deleted without an error, and counted
ClearAllCredentials ==
    \E failed \in SUBSET DOMAIN vault :
        /\ Called("clear", "", <<>>, failed)
        /\ IF ~isPlatformSupported
           THEN vaultResult' = VaultThrew("unsupported-platform") /\ Store(vault)
           ELSE LET deleted == SelectSeq(CREDENTIAL_KEYS, LAMBDA k : k \notin failed)
                IN  /\ vaultResult' = VaultReturned("number", <<Len(deleted)>>)
                    /\ Store([k \in DOMAIN vault \cap failed |-> vault[k]])

InitVault ==
    /\ mTarget = NotYet /\ mSource = NotYet /\ mOutput = NotYet
    /\ dirName = <<>>
    /\ configFile = NoFile
    /\ envFile = NoEnvFile
    /\ config = NotYet
    /\ composeConfig = NoDescriptor
    /\ composeFile = NoDescriptor
    /\ tempFiles = {}
    /\ dockerVolumes = {}
    /\ hostsWarningShown = FALSE
    /\ otherDir = NoDirectory
    /\ upLog = <<>>
    /\ commandsRun = 0
    /\ cmd = "none"
    /\ pc = "shell"
    /\ opts = NoOptions
    /\ exitCode = "none"
    /\ validation = NotValidated
    /\ reportedMissing = NoReport
    /\ trulyMissing = {}
    /\ tempEnvPath = 0
    /\ composeWrites = 0
    /\ upCalls = 0
    /\ NoWatch
    /\ NoAlias
    /\ NoInvoke
    /\ NoInit
    /\ NoParse
    /\ platform \in {"darwin", "linux"}
    /\ vault \in {<<>>, ("SHIB_SP_KEY" :> <<"6", "1">>) @@ ("WORDPRESS_DB_PASSWORD" :> <<"x">>)}
    /\ keychain = DOMAIN vault
    /\ vaultOp = NoVaultOp
    /\ vaultResult = NoVaultResult
    /\ vaultCalls = 0

NextVault ==
    \/ SetCredential \/ GetCredential \/ HasCredential \/ DeleteCredential \/ ListCredentials
    \/ ClearAllCredentials

SpecVault == InitVault /\ [][NextVault]_vars

---------------------------------------------------------------------------
(* The keychain adapter: parseCredentialsFile.                             *)

\* fs.readFileSync fails with ENOENT, or with another error
FileMissing    == {<< <<"?">>, <<"ENOENT">> >>}
FileUnreadable == {<< <<"?">>, <<"EACCES">> >>}

\* a string that is accepted whatever it holds, provided it is not empty
NonEmptyStringUntrimmed(value) == IsString(value) /\ TextOf(value) # <<>>

\* typeof value === 'string' && value.trim().length > 0
NonBlankString(value) == IsString(value) /\ Trim(TextOf(value)) # <<>>

\* data.credentials is truthy and typeof data.credentials === 'object'
HasCredentialsObject(data) ==
    LET credentials == Prop(data, "credentials")
    IN  Truthy(credentials) /\ (isObject(credentials) \/ IsArray(credentials))

\* the [key, value] pairs Object.entries(data.credentials) yields
CredentialEntries(data) == Keys(Spread(Prop(data, "credentials")))

ParseThrew(error) == [kind |-> "threw", error |-> error]

parseCredentialsFile(file) ==
    IF file = FileMissing THEN ParseThrew("file-not-found")
    ELSE IF file = Malformed THEN ParseThrew("invalid-json")
    ELSE IF file = FileUnreadable THEN ParseThrew("read-failed")
    ELSE IF IsNullish(file) THEN ParseThrew("type-error")
    ELSE IF ~HasCredentialsObject(file) THEN ParseThrew("invalid-format")
    ELSE LET credentials == Spread(Prop(file, "credentials"))
             keys        == CredentialEntries(file)
             accepted    == {k \in keys : InSeq(k, CREDENTIAL_KEYS)
                                          /\ NonBlankString(Sub(credentials, k))}
         IN  [ kind     |-> "returned",
               parsed   |-> [k \in accepted |-> Sub(credentials, k)],
               unknown  |-> {[key |-> k,
                              reason |-> IF InSeq(k, CREDENTIAL_KEYS)
                                         THEN "empty or invalid value"
                                         ELSE "unknown credential key"] :
                                k \in keys \ accepted},
               metadata |-> [version  |-> OrElse(Prop(file, "version"), StrVal(<<"unknown">>)),
                             source   |-> OrElse(Prop(file, "source"), StrVal(<<"unknown">>)),
                             exported |-> OrElse(Prop(file, "exported"), Null)] ]

CredentialFileKeys == {"WORDPRESS_DB_PASSWORD", "SHIB_SP_KEY", "UNKNOWN_KEY"}

CredentialFileValues ==
    { StrVal(<<"x">>), StrVal(<<>>), StrVal(<<" ">>), Num("1"), Null, EmptyObj }

\* the credentials maps of the model: every key absent or with one value
CredentialMaps ==
    { MkObj(ks, LAMBDA k : f[k]) :
        f \in [CredentialFileKeys -> CredentialFileValues], ks \in SUBSET CredentialFileKeys }

CredentialFiles ==
    { FileMissing, FileUnreadable, Malformed, Null, EmptyObj, Num("1"),
      Wrap("credentials", Null), Wrap("credentials", StrVal(<<"x">>)),
      Wrap("credentials", ArrVal(<<"x">>)), Wrap("credentials", Num("1")),
      Wrap("version", StrVal(<<"1.0">>)) }
    \cup { Wrap("credentials", c) : c \in CredentialMaps }
    \cup { Wrap("credentials", c) \cup Wrap("version", StrVal(<<"1.0">>)) :
             c \in CredentialMaps }

InitParse ==
    /\ mTarget = NotYet /\ mSource = NotYet /\ mOutput = NotYet
    /\ dirName = <<>>
    /\ configFile = NoFile
    /\ envFile = NoEnvFile
    /\ config = NotYet
    /\ composeConfig = NoDescriptor
    /\ composeFile = NoDescriptor
    /\ keychain = {}
    /\ tempFiles = {}
    /\ dockerVolumes = {}
    /\ hostsWarningShown = FALSE
    /\ otherDir = NoDirectory
    /\ upLog = <<>>
    /\ commandsRun = 0
    /\ cmd = "none"
    /\ pc = "shell"
    /\ opts = NoOptions
    /\ exitCode = "none"
    /\ validation = NotValidated
    /\ reportedMissing = NoReport
    /\ trulyMissing = {}
    /\ tempEnvPath = 0
    /\ composeWrites = 0
    /\ upCalls = 0
    /\ NoWatch
    /\ NoAlias
    /\ NoInvoke
    /\ NoInit
    /\ NoVault
    /\ credentialsFile \in CredentialFiles
    /\ parseResult = NotParsed

ParseCredentialsFileCall ==
    /\ parseResult = NotParsed
    /\ parseResult' = parseCredentialsFile(credentialsFile)
    /\ UNCHANGED <<mergeVars, fsVars, config, composeConfig, worldVars, cmdVars, watchVars,
                   vaultVars, initVars, invokeVars,
                   aliasVars, credentialsFile>>

NextParse == ParseCredentialsFileCall

SpecParse == InitParse /\ [][NextParse]_vars

---------------------------------------------------------------------------
(* lib/commands/init.js and initConfig of lib/config.js.                   *)

\* the mappings array init writes, by the kind of its one element
InitMappings(type) == ArrVal(<<"init-" \o type>>)

InitThrew == {<< <<"?">>, <<"init-threw">> >>}

\* initConfig(projectPath, options): the file it writes, or InitThrew when
\* the file exists
initConfig(basename, file, options) ==
    IF file # NoFile THEN InitThrew
    ELSE LET projectName == getProjectName(basename)
             withName == SetKey(DEFAULT_CONFIG, "projectName", StrVal(projectName))
             withHost == SetKey(withName, "hostname", StrVal(projectName \o <<".local">>))
             withEnv  == SetKey(withHost, "env",
                                Wrap("WP_DEBUG", TrueVal) \cup Wrap("XDEBUG", FalseVal))
         IN  SetKey(withEnv, "mappings",
                    InitMappings(IF options.type = "none" THEN "generic" ELSE options.type))

\* the configuration the interactive mode builds from the answers
InteractiveConfig(answers) ==
    Wrap("projectName", StrVal(answers.projectName))
    \cup Wrap("image", StrVal(<<"ghcr.io/bu-ist/bu-wp-docker-mod_shib:arm64-latest">>))
    \cup Wrap("hostname", StrVal(answers.hostname))
    \cup Wrap("multisite", TrueVal)
    \cup Wrap("services", Wrap("redis", IF answers.redis THEN TrueVal ELSE FalseVal)
                          \cup Wrap("s3proxy", TrueVal) \cup Wrap("shibboleth", TrueVal))
    \cup Wrap("ports", Wrap("http", Num("80")) \cup Wrap("https", Num("443"))
                       \cup Wrap("db", Num("3306")) \cup Wrap("redis", Num("6379")))
    \cup Wrap("mappings", InitMappings(answers.projectType))
    \cup Wrap("env", Wrap("WP_DEBUG", TrueVal) \cup Wrap("XDEBUG", FalseVal))

\* what the user answers to the prompts
Answers(basename) ==
    [projectName : {basename, <<"x">>},
     projectType : {"plugin", "mu-plugin", "theme", "custom"},
     hostname    : {<<"u-site.local">>},
     redis       : BOOLEAN]

\* initCommand(options): the configuration file afterwards and how the
\* command ended
initCommand(basename, file, options) ==
    IF file # NoFile /\ ~options.force
    THEN {[file |-> file, outcome |-> "exists"]}
    ELSE IF ~(options.interactive /\ options.isTTY)
    THEN LET written == initConfig(basename, file, options)
         IN  IF written = InitThrew
             THEN {[file |-> file, outcome |-> "threw"]}
             ELSE {[file |-> written, outcome |-> "created"]}
    ELSE {[file |-> file, outcome |-> "cancelled"]}
         \cup {[file |-> InteractiveConfig(a), outcome |-> "created"] : a \in Answers(basename)}

InitOptionSets ==
    [force : BOOLEAN, interactive : BOOLEAN, isTTY : BOOLEAN,
     type : {"none", "plugin", "mu-plugin", "theme"}]

InitFiles == {NoFile, Malformed, FileFull}

InitInit ==
    /\ mTarget = NotYet /\ mSource = NotYet /\ mOutput = NotYet
    /\ dirName \in {<<"a">>, <<"M", "y">>}
    /\ configFile \in InitFiles
    /\ envFile = NoEnvFile
    /\ config = NotYet
    /\ composeConfig = NoDescriptor
    /\ composeFile = NoDescriptor
    /\ keychain = {}
    /\ tempFiles = {}
    /\ dockerVolumes = {}
    /\ hostsWarningShown = FALSE
    /\ otherDir = NoDirectory
    /\ upLog = <<>>
    /\ commandsRun = 0
    /\ cmd = "none"
    /\ pc = "shell"
    /\ opts = NoOptions
    /\ exitCode = "none"
    /\ validation = NotValidated
    /\ reportedMissing = NoReport
    /\ trulyMissing = {}
    /\ tempEnvPath = 0
    /\ composeWrites = 0
    /\ upCalls = 0
    /\ NoWatch
    /\ NoAlias
    /\ NoInvoke
    /\ NoParse
    /\ NoVault
    /\ initOptions \in InitOptionSets
    /\ initOutcome = "none"

InitCommandCall ==
    /\ initOutcome = "none"
    /\ \E r \in initCommand(dirName, configFile, initOptions) :
          /\ configFile' = r.file
          /\ initOutcome' = r.outcome
    /\ UNCHANGED <<mergeVars, dirName, envFile, config, composeConfig, worldVars, cmdVars,
                   watchVars, vaultVars, parseVars, invokeVars, aliasVars,
                   initOptions>>

NextInit == InitCommandCall

SpecInit == InitInit /\ [][NextInit]_vars

---------------------------------------------------------------------------
(* lib/commands: stop, destroy, logs, wp, shell.                           *)

\* the invocation names no project
NoProjectFlag == <<"<no -p>">>

\* docker compose [-p project] -f composePath sub
ComposeCall(command, sub, project) == [command |-> command, sub |-> sub, project |-> project]

\* the -p argument of the logs command
LogsProjectFlag(cfg) == NoProjectFlag

\* a command that guards on the descriptor file, loads the configuration
\* where it needs the project name, tests docker info and runs one
\* docker compose invocation
Invoke(command, sub, loads, infoCanFail, callCanFail) ==
    /\ commandsRun < MaxCommands
    /\ commandsRun' = commandsRun + 1
    /\ cmd' = command
    /\ pc' = "done"
    /\ IF composeFile = NoDescriptor
       THEN exitCode' = "0" /\ UNCHANGED <<config, composeCalls, dockerVolumes>>
       ELSE LET loaded == IF loads THEN loadConfig(dirName, configFile, envFile) ELSE NotYet
            IN  IF loaded = Threw
                THEN exitCode' = "1" /\ UNCHANGED <<config, composeCalls, dockerVolumes>>
                ELSE /\ config' = loaded
                     /\ \/ \* docker info fails
                           /\ infoCanFail
                           /\ exitCode' = "1"
                           /\ UNCHANGED <<composeCalls, dockerVolumes>>
                        \/ \* destroy: the user does not confirm
                           /\ command = "destroy"
                           /\ exitCode' = "0"
                           /\ UNCHANGED <<composeCalls, dockerVolumes>>
                        \/ \E failed \in {FALSE, callCanFail} :
                              LET project == IF loads THEN ProjectNameOrDefault(loaded)
                                             ELSE LogsProjectFlag(loaded)
                              IN  /\ composeCalls' = composeCalls
                                         \cup {ComposeCall(command, sub, project)}
                                  /\ exitCode' = IF failed THEN "1" ELSE "0"
                                  /\ dockerVolumes' =
                                        IF command = "destroy" /\ ~failed
                                        THEN dockerVolumes \ VolumesOf(project, composeFile)
                                        ELSE dockerVolumes
    /\ UNCHANGED <<inputVars, composeConfig, composeFile, keychain, tempFiles,
                   hostsWarningShown, otherDir, upLog, opts, validation, reportedMissing,
                   trulyMissing, tempEnvPath, composeWrites, upCalls, watchVars, vaultVars,
                   parseVars, initVars, aliasVars>>

StopCommand == pc \in {"shell", "done"} /\ Invoke("stop", "stop", TRUE, TRUE, TRUE)
DestroyCommand == pc \in {"shell", "done"} /\ Invoke("destroy", "down -v", TRUE, TRUE, TRUE)
\* a failure of docker compose logs is taken for Ctrl+C
LogsCommand == pc \in {"shell", "done"} /\ Invoke("logs", "logs", FALSE, TRUE, FALSE)
\* a failure of wp is ignored
WpCommand == pc \in {"shell", "done"} /\ Invoke("wp", "exec wordpress wp", TRUE, TRUE, FALSE)
\* spawnSync does not throw when docker info fails
ShellCommand == pc \in {"shell", "done"} /\ Invoke("shell", "exec wordpress /bin/bash", TRUE, FALSE, FALSE)

InvokeFiles ==
    { NoFile, Malformed, Wrap("projectName", StrVal(<<"s", "h">>)),
      Wrap("projectName", StrVal(<<>>)) }

\* the descriptor file an earlier start left in the directory
StartedFile(basename, file) ==
    LET loaded == loadConfig(basename, IF file = Malformed THEN NoFile ELSE file, NoEnvFile)
    IN  writeComposeFile(generateComposeConfig(loaded, Cwd(basename)))

InitInvoke ==
    /\ mTarget = NotYet /\ mSource = NotYet /\ mOutput = NotYet
    /\ dirName \in {<<"a">>, <<"M", "y">>}
    /\ configFile \in InvokeFiles
    /\ envFile = NoEnvFile
    /\ config = NotYet
    /\ composeConfig = NoDescriptor
    /\ composeFile \in {NoDescriptor, StartedFile(dirName, configFile)}
    /\ keychain = {}
    /\ tempFiles = {}
    /\ dockerVolumes =
          IF composeFile = NoDescriptor THEN {}
          ELSE VolumesOf(ProjectNameOrDefault(
                   loadConfig(dirName, IF configFile = Malformed THEN NoFile ELSE configFile,
                              NoEnvFile)), composeFile)
    /\ hostsWarningShown = FALSE
    /\ otherDir = NoDirectory
    /\ upLog = <<>>
    /\ commandsRun = 0
    /\ cmd = "none"
    /\ pc = "shell"
    /\ opts = NoOptions
    /\ exitCode = "none"
    /\ validation = NotValidated
    /\ reportedMissing = NoReport
    /\ trulyMissing = {}
    /\ tempEnvPath = 0
    /\ composeWrites = 0
    /\ upCalls = 0
    /\ NoWatch
    /\ NoAlias
    /\ NoInit
    /\ NoParse
    /\ NoVault
    /\ composeCalls = {}

NextInvoke == StopCommand \/ DestroyCommand \/ LogsCommand \/ WpCommand \/ ShellCommand

SpecInvoke == InitInvoke /\ [][NextInvoke]_vars

---------------------------------------------------------------------------
(* lib/config.js: the objects a record of loadConfig shares with           *)
(* DEFAULT_CONFIG.                                                         *)

MaxLoads == 2

\* the keys of the merged record whose value is the very object (or array)
\* of DEFAULT_CONFIG: deepMerge({}, DEFAULT_CONFIG) assigns source[key]
\* itself, and a later deepMerge replaces only the keys of its source
AliasedKeys(defaults, userConfig, envVars) ==
    { k \in Keys(defaults) : isObject(Get(defaults, k)) \/ IsArray(Get(defaults, k)) }
    \ ((IF isObject(userConfig) THEN Keys(userConfig) ELSE {})
       \cup (IF isObject(envVars) THEN Keys(envVars) ELSE {}))

\* the same with every nested object copied
AliasedKeysNone(defaults, userConfig, envVars) == {}

\* what a record reads now: an aliased key reads the object of DEFAULT_CONFIG
Reads(record) ==
    MkObj(Keys(record.own),
          LAMBDA k : IF k \in record.aliased THEN Get(defaultObject, k)
                     ELSE Sub(record.own, k))

\* the assignments start makes into the record for --xdebug, --no-s3, --no-redis
StartAssignments ==
    { <<"env", "XDEBUG", TrueVal>>, <<"services", "s3proxy", FalseVal>>,
      <<"services", "redis", FalseVal>> }

AliasFiles ==
    { NoFile, EmptyObj, Wrap("services", Wrap("redis", FalseVal)),
      Wrap("env", Wrap("WP_DEBUG", TrueVal)),
      Wrap("services", Wrap("redis", FalseVal)) \cup Wrap("env", Wrap("WP_DEBUG", TrueVal)) }

InitAlias ==
    /\ mTarget = NotYet /\ mSource = NotYet /\ mOutput = NotYet
    /\ dirName = <<"a">>
    /\ configFile \in AliasFiles
    /\ envFile \in {NoEnvFile, << <<"S3_UPLOADS_REGION", "=", "us-east-1">> >>}
    /\ config = NotYet
    /\ composeConfig = NoDescriptor
    /\ composeFile = NoDescriptor
    /\ keychain = {}
    /\ tempFiles = {}
    /\ dockerVolumes = {}
    /\ hostsWarningShown = FALSE
    /\ otherDir = NoDirectory
    /\ upLog = <<>>
    /\ commandsRun = 0
    /\ cmd = "none"
    /\ pc = "shell"
    /\ opts = NoOptions
    /\ exitCode = "none"
    /\ validation = NotValidated
    /\ reportedMissing = NoReport
    /\ trulyMissing = {}
    /\ tempEnvPath = 0
    /\ composeWrites = 0
    /\ upCalls = 0
    /\ NoWatch
    /\ NoInvoke
    /\ NoInit
    /\ NoParse
    /\ NoVault
    /\ defaultObject = DEFAULT_CONFIG
    /\ loadedRecords = <<>>

\* loadConfig(projectPath) is called once more in the process
LoadAgain ==
    /\ Len(loadedRecords) < MaxLoads
    /\ LET userConfig == IF configFile = NoFile THEN EmptyObj ELSE configFile
           envVars    == IF envFile = NoEnvFile THEN EmptyObj ELSE extractEnvVars(envFile)
           returned   == loadConfigFrom(defaultObject, dirName, configFile, envFile)
       IN  /\ returned # Threw
           /\ loadedRecords' = Append(loadedRecords,
                  [own      |-> returned,
                   aliased  |-> AliasedKeys(defaultObject, userConfig, envVars),
                   returned |-> returned])
           /\ config' = returned
    /\ UNCHANGED <<mergeVars, fsVars, composeConfig, worldVars, cmdVars, watchVars, vaultVars,
                   parseVars, initVars, invokeVars, defaultObject>>

\* record.section.key = value, on a record loadConfig returned
AssignInto ==
    \E i \in 1..Len(loadedRecords), a \in StartAssignments :
        LET record  == loadedRecords[i]
            section == a[1]
            changed(object) == SetKey(object, a[2], a[3])
        IN  /\ isObject(Get(Reads(record), section))
            /\ IF section \in record.aliased
               THEN /\ defaultObject' =
                          SetKey(defaultObject, section, changed(Get(defaultObject, section)))
                    /\ UNCHANGED loadedRecords
               ELSE /\ loadedRecords' = [loadedRecords EXCEPT ![i].own =
                                     SetKey(record.own, section, changed(Get(record.own, section)))]
                    /\ UNCHANGED defaultObject
    /\ UNCHANGED <<mergeVars, fsVars, config, composeConfig, worldVars, cmdVars, watchVars,
                   vaultVars, parseVars, initVars, invokeVars>>

NextAlias == LoadAgain \/ AssignInto

SpecAlias == InitAlias /\ [][NextAlias]_vars

---------------------------------------------------------------------------
(* Claims.                                                                 *)

Returned(c) == c # NotYet /\ c # Threw

IsPrefix(p, q) == Len(p) <= Len(q) /\ SubSeq(q, 1, Len(p)) = p

\* the value a layer holds at a path, and whether it holds one
HasAt(v, p) == p # <<>> /\ \E e \in v : IsPrefix(p, e[1])
At(v, p)    == {<<SubSeq(e[1], Len(p) + 1, Len(e[1])), e[2]>> : e \in {x \in v : IsPrefix(p, x[1])}}
IsLeafAt(v, p) == \E e \in v : e[1] = p /\ e[2] # <<"{}">>
\* the layer sets the path, something below it or something enclosing it
Touches(v, p) == \E e \in v : e[1] # <<>> /\ (IsPrefix(p, e[1]) \/ IsPrefix(e[1], p))

FileLayer == IF configFile \in {NoFile, Malformed} THEN EmptyObj ELSE configFile
OverlayDefines(e) == envFile # NoEnvFile /\ DotenvDefines(envFile, e[3])
OverlayPaths == {<<e[1], e[2]>> : e \in {x \in EnvVarTable : OverlayDefines(x)}}
LeafPaths(v) == {e[1] : e \in {x \in v : x[1] # <<>> /\ x[2] # <<"{}">>}}

(* C7: the projectName of the record loadConfig returns is non-empty, made *)
(* only of characters in [a-z0-9_-], and neither starts nor ends with "-". *)
C7_ProjectNameWellFormed ==
    Returned(config) =>
        LET name == TextOf(Get(config, "projectName"))
        IN  /\ name # <<>>
            /\ \A i \in 1..Len(name) : NameChar(name[i])
            /\ name[1] # "-"
            /\ name[Len(name)] # "-"

MergePrecedenceAt(p) ==
    /\ \A e \in EnvVarTable :
           (p = <<e[1], e[2]>> /\ OverlayDefines(e) /\ HasAt(FileLayer, p))
               => At(config, p) = ProcessEnv(envFile, e[3])
    /\ (IsLeafAt(FileLayer, p) /\ HasAt(DEFAULT_CONFIG, p) /\ p \notin OverlayPaths)
           => At(config, p) = At(FileLayer, p)
    /\ (IsLeafAt(DEFAULT_CONFIG, p) /\ ~Touches(FileLayer, p) /\ p \notin OverlayPaths)
           => At(config, p) = At(DEFAULT_CONFIG, p)

(* C8 as stated: in the returned record a key set by both the overlay and  *)
(* the file config has the overlay's value, a key set by the file config   *)
(* and the defaults has the file config's value, and a key set only by the *)
(* defaults has the default value, for every key.                          *)
C8_MergePrecedenceEveryKey ==
    Returned(config) =>
        \A p \in LeafPaths(DEFAULT_CONFIG) \cup LeafPaths(FileLayer) \cup OverlayPaths :
            MergePrecedenceAt(p)

(* C8, amended: the same precedence for every key other than projectName,  *)
(* which loadConfig derives from the directory name when it is unset and   *)
(* always sanitizes after the merge.                                       *)
C8_MergePrecedence ==
    Returned(config) =>
        \A p \in LeafPaths(DEFAULT_CONFIG) \cup LeafPaths(FileLayer) \cup OverlayPaths :
            p # <<"projectName">> => MergePrecedenceAt(p)

C8_Witness ==
    /\ Returned(config)
    /\ OverlayDefines(<<"db", "password", "WORDPRESS_DB_PASSWORD">>)
    /\ IsLeafAt(FileLayer, <<"db", "password">>)
    /\ At(config, <<"db", "password">>) = StrVal(<<"envpw">>)
    /\ At(config, <<"ports", "http">>) = Num("8080")
    /\ At(config, <<"ports", "https">>) = Num("443")

(* C10: when .env.local exists and does not define a credential variable,  *)
(* the field the file config sets for it keeps the file config's value in  *)
(* the record loadConfig returns.                                          *)
C10_OverlayFrame ==
    (Returned(config) /\ envFile # NoEnvFile) =>
        \A e \in EnvVarTable :
            (~DotenvDefines(envFile, e[3]) /\ IsLeafAt(FileLayer, <<e[1], e[2]>>))
                => At(config, <<e[1], e[2]>>) = At(FileLayer, <<e[1], e[2]>>)

Compiled == composeConfig.state = "compiled"

\* text t occurs in text u
Occurs(t, u) == \E i \in 1..(Len(u) - Len(t) + 1) : SubSeq(u, i, i + Len(t) - 1) = t

\* number of places where t occurs in u
Occurrences(t, u) ==
    Cardinality({i \in 1..(Len(u) - Len(t) + 1) : SubSeq(u, i, i + Len(t) - 1) = t})

\* every text a service of the descriptor carries in its environment or command
DescriptorTexts(d) ==
    UNION { {ToText(d.services[n].environment[k]) : k \in DOMAIN d.services[n].environment}
            : n \in {x \in DOMAIN d.services : "environment" \in DOMAIN d.services[x]} }
    \cup UNION { {d.services[n].command[i] : i \in 1..Len(d.services[n].command)}
                 : n \in {x \in DOMAIN d.services : "command" \in DOMAIN d.services[x]} }

\* the configuration fields that hold credential values
CredentialPaths ==
    { <<"db", "password">>, <<"db", "rootPassword">>,
      <<"shibboleth", "entityId">>, <<"shibboleth", "idpEntityId">>,
      <<"shibboleth", "spKey">>, <<"shibboleth", "spCert">>,
      <<"s3", "accessKeyId">>, <<"s3", "secretAccessKey">>,
      <<"olap", "name">>, <<"olap", "accountNumber">>, <<"olap", "region">> }

HoldsCredential(cfg, p) ==
    HasAt(cfg, p) /\ IsString(At(cfg, p)) /\ Truthy(At(cfg, p))

\* cfg with the credential at p replaced by another value
WithCredential(cfg, p, text) ==
    {e \in cfg : e[1] # p} \cup {<<p, Str(text)>>}

(* C2: no credential value of the resolved configuration appears as a      *)
(* literal in the descriptor (in no service's environment, command or      *)
(* WORDPRESS_CONFIG_EXTRA), and a configuration that differs only in a     *)
(* credential value compiles to the same descriptor.                       *)
C2_NoCredentialLiteral ==
    Compiled =>
        \A p \in CredentialPaths :
            HoldsCredential(config, p) =>
                /\ \A u \in DescriptorTexts(composeConfig) : ~Occurs(TextOf(At(config, p)), u)
                /\ generateComposeConfig(WithCredential(config, p, <<"another-value">>),
                                         Cwd(dirName)) = composeConfig

\* the source of a service's volume entry "source:target"
MountSource(entry) == SubSeq(entry, 1, (CHOOSE i \in 1..Len(entry) : entry[i] = ":"
                                           /\ \A j \in 1..(i - 1) : entry[j] # ":") - 1)
MountTarget(entry) == SubSeq(entry, Len(MountSource(entry)) + 2, Len(entry))

(* C5: every top-level volume carries an explicit name, so the volumes an  *)
(* orchestrator run with -p I creates are I_db_data and I_wp_build (never  *)
(* I_I_...), and the name update passes to docker volume rm is the name of *)
(* the volume mounted at /var/www/html.                                    *)
C5_VolumesNotPrefixedTwice ==
    Compiled =>
        LET I        == ProjectNameOrDefault(config)
            created  == {ComposeVolumeName(I, v) : v \in composeConfig.volumes}
            wpMounts == {v \in composeConfig.volumes :
                            \E i \in 1..Len(composeConfig.services["wordpress"].volumes) :
                                LET entry == composeConfig.services["wordpress"].volumes[i]
                                IN  MountSource(entry) = v.key
                                    /\ MountTarget(entry) = <<"/var/www/html">>}
        IN  /\ \A v \in composeConfig.volumes : Truthy(Prop(v.spec, "name"))
            /\ created = {dbVolumeName(I), wpVolumeName(I)}
            /\ \A v \in wpMounts : ComposeVolumeName(I, v) = updateWpVolumeName(I)

ValidIdentity(cfg) == Returned(cfg) /\ TextOf(Get(cfg, "projectName")) # <<>>

DeclaredVolumes(d)  == {v.key : v \in d.volumes}
MountedAt(d, n, at) == {MountSource(d.services[n].volumes[i]) :
                           i \in {j \in 1..Len(d.services[n].volumes) :
                                     MountTarget(d.services[n].volumes[j]) = at}}

(* C6 as stated: for every valid identity I the two named volumes the      *)
(* descriptor declares and mounts are exactly I_db_data and I_build, and   *)
(* neither name contains I twice.                                          *)
C6_VolumeNamesAsStated ==
    (Compiled /\ ValidIdentity(config)) =>
        LET I  == TextOf(Get(config, "projectName"))
            db == I \o <<"_", "d", "b", "_", "d", "a", "t", "a">>
            wp == I \o <<"_", "b", "u", "i", "l", "d">>
        IN  /\ DeclaredVolumes(composeConfig) = {db, wp}
            /\ MountedAt(composeConfig, "db", <<"/var/lib/mysql">>) = {db}
            /\ MountedAt(composeConfig, "wordpress", <<"/var/www/html">>) = {wp}
            /\ \A n \in DeclaredVolumes(composeConfig) : Occurrences(I, n) = 1

(* C6, amended: for every valid identity I the two named volumes the       *)
(* descriptor declares and mounts are exactly I followed by _db_data and I *)
(* followed by _wp_build: the generator prepends I once.                   *)
C6_VolumeNames ==
    (Compiled /\ ValidIdentity(config)) =>
        LET I  == TextOf(Get(config, "projectName"))
            db == I \o <<"_", "d", "b", "_", "d", "a", "t", "a">>
            wp == I \o <<"_", "w", "p", "_", "b", "u", "i", "l", "d">>
        IN  /\ DeclaredVolumes(composeConfig) = {db, wp}
            /\ MountedAt(composeConfig, "db", <<"/var/lib/mysql">>) = {db}
            /\ MountedAt(composeConfig, "wordpress", <<"/var/www/html">>) = {wp}

C6_Witness ==
    /\ Compiled
    /\ Get(config, "projectName") = StrVal(<<"s", "-", "1">>)
    /\ <<"s", "-", "1", "_", "w", "p", "_", "b", "u", "i", "l", "d">> \in DeclaredVolumes(composeConfig)

(* C9: for every key of the override, the merged value is the override     *)
(* taken wholesale when it is a mapping and the base has no entry, the     *)
(* recursive merge when both are mappings, and the override replacing the  *)
(* base wholesale in every other case (a mapping over a scalar, null or    *)
(* array base included; arrays are never concatenated).                    *)
C9_OverrideReplacesOrRecurses ==
    mOutput # NotYet =>
        \A key \in Keys(mSource) :
            LET o == Sub(mSource, key)
                b == Get(mTarget, key)
            IN  IF isObject(o) /\ key \in Keys(mTarget) /\ isObject(b)
                THEN Get(mOutput, key) = deepMerge(b, o)
                ELSE Get(mOutput, key) = o


Range(q) == {q[i] : i \in 1..Len(q)}

(* C1: in start and update, once a credential env file has been staged it  *)
(* no longer exists when the command has ended, whether docker compose up  *)
(* succeeded or failed with exit code 1.                                   *)
C1_StagedFilePurged ==
    (pc = "done" /\ tempEnvPath # 0) => tempEnvPath \notin tempFiles

ValidationFailed == validation # NotValidated /\ validation # <<>>

(* C3: in start, when validateConfig reports an error for the merged       *)
(* configuration with the command-line overrides applied, the descriptor   *)
(* file is not written, docker compose up is not invoked, and the command  *)
(* ends with a failure exit.                                               *)
C3_ValidationFailureStopsStart ==
    (cmd = "start" /\ ValidationFailed)
        => /\ composeWrites = 0
           /\ upCalls = 0
           /\ pc = "done"
           /\ exitCode = "1"

C3_Witness ==
    /\ cmd = "start"
    /\ opts.xdebug
    /\ validation = << <<"invalid-port", "http">> >>
    /\ pc = "done"

(* C4: when a required credential is defined neither in the keychain nor   *)
(* in .env.local, start ends with a failure exit before the descriptor is  *)
(* generated and before docker compose up is invoked, and the keys it      *)
(* reports as missing are exactly the required keys absent from both.      *)
C4_MissingCredentialStopsStart ==
    cmd = "start" =>
        /\ (RequiredAbsent(keychain, envFile) # {}
            /\ pc \notin {"load", "validate", "credentials"})
              => /\ pc = "done"
                 /\ exitCode = "1"
                 /\ composeWrites = 0
                 /\ upCalls = 0
        /\ reportedMissing # NoReport => Range(reportedMissing) = trulyMissing


\* a declared port is an integer in [1, 65535]
PortIsValid(port) ==
    /\ IsNumber(port)
    /\ ~HasFraction(LeafOf(port)[2])
    /\ NumeralValue(LeafOf(port)[2]) >= 1
    /\ NumeralValue(LeafOf(port)[2]) <= 65535

DeclaredPorts(cfg) == IF isObject(Get(cfg, "ports")) THEN Keys(Get(cfg, "ports")) ELSE {}

BadPorts(cfg) == {s \in DeclaredPorts(cfg) : ~PortIsValid(Get(Get(cfg, "ports"), s))}

MappingsOf(cfg) ==
    IF IsArray(Get(cfg, "mappings"))
    THEN {MappingOf(Elements(Get(cfg, "mappings"))[i]) : i \in 1..Len(Elements(Get(cfg, "mappings")))}
    ELSE {}

\* one of the defects the claim lists, other than a bad port
OtherDefect(cfg) ==
    \/ ~Truthy(Get(cfg, "image"))
    \/ ~Truthy(Get(cfg, "hostname"))
    \/ \E mp \in MappingsOf(cfg) :
          \/ ~Truthy(Prop(mp, "local")) \/ ~Truthy(Prop(mp, "container"))
          \/ ToText(Prop(mp, "local")) \notin ExistingPaths

(* C11: validateConfig never throws; it returns a non-empty error list     *)
(* exactly when the image or the hostname is absent, a mapping lacks a     *)
(* side, a mapping's local path does not exist, or a declared port is not  *)
(* an integer in [1, 65535]; every such port has an error; and a           *)
(* configuration whose only defect is ports.http = 99999 yields exactly    *)
(* one error, which names http.                                            *)
C11_ValidateConfigTotalAndExact ==
    validation # NotValidated =>
        /\ validation # ValidationThrew
        /\ (validation # <<>>) <=> (OtherDefect(config) \/ BadPorts(config) # {})
        /\ \A s \in BadPorts(config) : <<"invalid-port", s>> \in Range(validation)
        /\ (~OtherDefect(config) /\ DeclaredPorts(config) = {"http", "https", "db", "redis"}
            /\ BadPorts(config) = {"http"}
            /\ Get(Get(config, "ports"), "http") = Num("99999"))
              => validation = << <<"invalid-port", "http">> >>


WordPressEnvironment == composeConfig.services["wordpress"].environment

(* C12: for every key the compiler itself writes into the wordpress        *)
(* service's environment (the fixed variables, the blocks of the enabled   *)
(* optional services and WORDPRESS_CONFIG_EXTRA), the emitted value is the *)
(* compiler's value, whatever config.env holds under that name and         *)
(* whatever the compiler's value is (the empty string included).           *)
C12_CustomNeverOverridesPlatformKey ==
    Compiled =>
        /\ \A K \in DOMAIN PlatformEnvironment(config) :
               WordPressEnvironment[K] = PlatformEnvironment(config)[K]
        /\ WordPressEnvironment["WORDPRESS_CONFIG_EXTRA"] = StrVal(WpConfigExtra(config))


Toggle(x) == Truthy(Prop(Get(config, "services"), x))

WordPressDependsOn == composeConfig.services["wordpress"].depends_on

(* C13 as stated: the wordpress service's depends_on is db, followed by    *)
(* exactly the optional services whose toggle is true, in the order redis, *)
(* s3proxy, shibboleth.                                                    *)
C13_DependsOnAsStated ==
    Compiled =>
        WordPressDependsOn =
            <<"db">> \o (IF Toggle("redis") THEN <<"redis">> ELSE <<>>)
                     \o (IF Toggle("s3proxy") THEN <<"s3proxy">> ELSE <<>>)
                     \o (IF Toggle("shibboleth") THEN <<"shibboleth">> ELSE <<>>)

(* C13, amended: depends_on starts with db, lists after it exactly the     *)
(* services among s3proxy and redis whose toggle is true, each once, with  *)
(* s3proxy before redis; shibboleth is never listed.                       *)
C13_DependsOn ==
    Compiled =>
        LET d == WordPressDependsOn
        IN  /\ d[1] = "db"
            /\ Range(Tail(d)) = {x \in {"s3proxy", "redis"} : Toggle(x)}
            /\ Len(d) = 1 + Cardinality(Range(Tail(d)))
            /\ \A i, j \in 1..Len(d) : (d[i] = "s3proxy" /\ d[j] = "redis") => i < j

C13_Witness ==
    /\ Compiled
    /\ Toggle("shibboleth")
    /\ WordPressDependsOn = <<"db", "s3proxy", "redis">>


\* the environment keys and the service name that belong to an optional service
ServiceKeys(x) ==
    CASE x = "redis"      -> {"REDIS_HOST", "REDIS_PORT"}
      [] x = "s3proxy"    -> {"S3PROXY_HOST"}
      [] x = "shibboleth" -> {"SP_ENTITY_ID", "IDP_ENTITY_ID", "SHIB_IDP_LOGOUT",
                              "SHIB_SP_KEY", "SHIB_SP_CERT"}

OptionalServices == {"redis", "s3proxy", "shibboleth"}

\* the extra-configuration block holds a storage-proxy directive
ExtraMentionsS3 ==
    \E i \in 1..Len(TextOf(WordPressEnvironment["WORDPRESS_CONFIG_EXTRA"])) :
        TextOf(WordPressEnvironment["WORDPRESS_CONFIG_EXTRA"])[i] = "define('S3_UPLOADS_BUCKET', '"

CustomKeys == IF isObject(Get(config, "env")) THEN Keys(Get(config, "env")) ELSE {}

DisabledOmitted(x, allowed) ==
    /\ x \notin DOMAIN composeConfig.services
    /\ x \notin Range(WordPressDependsOn)
    /\ ServiceKeys(x) \cap DOMAIN WordPressEnvironment \subseteq allowed
    /\ x = "s3proxy" => ~ExtraMentionsS3

(* C14 as stated: for each optional service whose toggle is false, the     *)
(* descriptor has no service entry for it, the wordpress depends_on does   *)
(* not list it, and the wordpress environment (WORDPRESS_CONFIG_EXTRA      *)
(* included) contains none of its keys.                                    *)
C14_DisabledServiceOmittedAsStated ==
    Compiled => \A x \in OptionalServices : ~Toggle(x) => DisabledOmitted(x, {})

(* C14, amended: the same, except that a key of a disabled service is in   *)
(* the environment when config.env itself defines a custom variable of     *)
(* that name, and then with the custom value.                              *)
C14_DisabledServiceOmitted ==
    Compiled =>
        \A x \in OptionalServices : ~Toggle(x) =>
            /\ DisabledOmitted(x, CustomKeys)
            /\ \A k \in ServiceKeys(x) \cap DOMAIN WordPressEnvironment :
                   WordPressEnvironment[k] = StrVal(ToText(Get(Get(config, "env"), k)))

C14_Witness ==
    /\ Compiled
    /\ ~Toggle("redis") /\ Toggle("s3proxy")
    /\ "redis" \notin DOMAIN composeConfig.services
    /\ "REDIS_HOST" \notin DOMAIN WordPressEnvironment
    /\ WordPressDependsOn = <<"db", "s3proxy">>

(* C15 as stated: for each of redis, s3proxy and shibboleth whose toggle   *)
(* is true, the descriptor's service map has a service for it.             *)
C15_EnabledServiceEmittedAsStated ==
    Compiled => \A x \in OptionalServices : Toggle(x) => x \in DOMAIN composeConfig.services

(* C15, amended: for each of redis and s3proxy whose toggle is true the    *)
(* service map has a service for it; a true shibboleth toggle adds the     *)
(* five federated-auth variables to the wordpress environment and no       *)
(* service.                                                                *)
C15_EnabledServiceEmitted ==
    Compiled =>
        /\ \A x \in {"redis", "s3proxy"} : Toggle(x) => x \in DOMAIN composeConfig.services
        /\ "shibboleth" \notin DOMAIN composeConfig.services
        /\ Toggle("shibboleth") => ServiceKeys("shibboleth") \subseteq DOMAIN WordPressEnvironment

C15_Witness ==
    /\ Compiled
    /\ Toggle("redis") /\ Toggle("shibboleth") /\ ~Toggle("s3proxy")
    /\ composeConfig.services["redis"].image = <<"redis:alpine">>
    /\ DOMAIN composeConfig.services = {"db", "wordpress", "redis"}


\* the volumes of the wordpress service a docker compose up was handed
HandedVolumes(up) == Range(up.file.yaml.services["wordpress"].volumes)

(* C16: when start is run in one project directory and then in another     *)
(* directory with the same projectName, the wordpress service the second   *)
(* start hands to docker compose up mounts the mappings of both            *)
(* directories, and its toggles are those of the second directory.         *)
C16_MappingsAccumulate ==
    \A i, j \in 1..Len(upLog) :
        (i < j /\ upLog[i].project = upLog[j].project /\ upLog[i].dir # upLog[j].dir) =>
            /\ HandedVolumes(upLog[i]) \subseteq HandedVolumes(upLog[j])
            /\ (j = Len(upLog) /\ pc = "done") =>
                   DOMAIN upLog[j].file.yaml.services = ServiceNames(config)


(* C17: the watcher starts a processJobs invocation only when the result   *)
(* of the previous one has been observed, so at most one is in flight and  *)
(* no timer is pending while one is; once SIGINT or SIGTERM has arrived    *)
(* the process has exited, with no timer pending and no invocation started *)
(* since, whether or not an invocation was still in flight.                *)
C17_OneInvocationAtATime ==
    /\ started - observed \in {0, 1}
    /\ (started - observed = 1) => ~timerArmed
    /\ isShuttingDown =>
          /\ watchPc = "exited"
          /\ ~timerArmed
          /\ started = startedAtSignal

\* the signal arrived while the third invocation was in flight
C17_Witness ==
    /\ isShuttingDown
    /\ started = MaxInvocations
    /\ observed = started - 1
    /\ childRunning
    /\ watchPc = "exited"


C19_SanitizeIdempotent ==
    /\ sanitizeProjectName(sanitizeProjectName(dirName)) = sanitizeProjectName(dirName)
    /\ config \notin {NotYet, Threw} =>
          sanitizeProjectName(TextOf(Get(config, "projectName")))
              = TextOf(Get(config, "projectName"))

\* loadConfig has sanitized a name with an upper-case letter, a character
\* that is replaced and dashes at both ends
C19_Witness ==
    /\ config \notin {NotYet, Threw}
    /\ configFile = NoFile
    /\ dirName = <<"@", "B", "-">>
    /\ TextOf(Get(config, "projectName")) = <<"b">>


ThrowingOps == {"set", "get", "delete"}

(* C20 as stated: setCredential, getCredential and deleteCredential throw  *)
(* the unsupported-platform error whenever the platform is not the         *)
(* supported one, and the invalid-key error for every key outside the      *)
(* registry; hasCredential and listCredentials never throw and answer      *)
(* "not found" off-platform, for unknown keys and on a store error.        *)
C20_VaultErrorsAsStated ==
    /\ vaultOp.op \in ThrowingOps =>
          /\ platform # "darwin" => vaultResult = VaultThrew("unsupported-platform")
          /\ ~InSeq(vaultOp.key, CREDENTIAL_KEYS) => vaultResult = VaultThrew("invalid-key")
    /\ vaultOp.op = "has" =>
          /\ vaultResult.kind = "returned"
          /\ (platform # "darwin" \/ ~InSeq(vaultOp.key, CREDENTIAL_KEYS)
                \/ vaultOp.key \in vaultOp.failed)
             => vaultResult.value = <<"false">>
    /\ vaultOp.op = "list" =>
          /\ vaultResult.kind = "returned"
          /\ platform # "darwin" => vaultResult.value = <<>>
          /\ \A k \in vaultOp.failed : ~InSeq(k, vaultResult.value)
          /\ \A i \in 1..Len(vaultResult.value) : InSeq(vaultResult.value[i], CREDENTIAL_KEYS)

(* C20: setCredential, getCredential and deleteCredential throw the        *)
(* unsupported-platform error whenever the platform is not the supported   *)
(* one, whatever the key, and on the supported platform the invalid-key    *)
(* error for every key outside the registry; hasCredential and             *)
(* listCredentials never throw and answer "not found" off-platform, for    *)
(* unknown keys and on a store error.                                      *)
C20_VaultErrors ==
    /\ vaultOp.op \in ThrowingOps =>
          /\ platform # "darwin" => vaultResult = VaultThrew("unsupported-platform")
          /\ (platform = "darwin" /\ ~InSeq(vaultOp.key, CREDENTIAL_KEYS))
             => vaultResult = VaultThrew("invalid-key")
    /\ vaultOp.op = "has" =>
          /\ vaultResult.kind = "returned"
          /\ (platform # "darwin" \/ ~InSeq(vaultOp.key, CREDENTIAL_KEYS)
                \/ vaultOp.key \in vaultOp.failed)
             => vaultResult.value = <<"false">>
    /\ vaultOp.op = "list" =>
          /\ vaultResult.kind = "returned"
          /\ platform # "darwin" => vaultResult.value = <<>>
          /\ \A k \in vaultOp.failed : ~InSeq(k, vaultResult.value)
          /\ \A i \in 1..Len(vaultResult.value) : InSeq(vaultResult.value[i], CREDENTIAL_KEYS)

\* on the supported platform setCredential was called with a key outside
\* the registry and threw
C20_Witness ==
    /\ platform = "darwin"
    /\ vaultOp.op = "set"
    /\ vaultOp.key = "UNKNOWN_KEY"
    /\ vaultResult.kind = "threw"


\* getCredential returned the text of a stored credential
GotStored == vaultOp.op = "get" /\ vaultResult.kind = "returned" /\ vaultResult.type = "string"

(* C21 as stated: getCredential returns the hex-decoded stored value when  *)
(* the key is multi-line-capable and the stored value is non-empty, of     *)
(* even length and made of hex digits only, and the stored value itself in *)
(* every other case.                                                       *)
C21_HexDecodingAsStated ==
    GotStored =>
        LET stored == vault[vaultOp.key]
        IN  vaultResult.value =
                IF isMultilineCredential(vaultOp.key) /\ isHexEncoded(stored)
                THEN HexDecode(stored) ELSE stored

(* C21: getCredential trims the text the keychain prints for the stored    *)
(* value; it returns the hex-decoded form of the trimmed text when the key *)
(* is multi-line-capable and the trimmed text is non-empty, of even length *)
(* and made of hex digits only, and the trimmed text itself in every other *)
(* case.                                                                   *)
C21_HexDecoding ==
    GotStored =>
        LET printed == Trim(SecurityPrint(vault[vaultOp.key]))
        IN  /\ (InSeq(vaultOp.key, MULTILINE_CREDENTIALS) /\ isHexEncoded(printed))
               => vaultResult.value = HexDecode(printed)
            /\ ~(InSeq(vaultOp.key, MULTILINE_CREDENTIALS) /\ isHexEncoded(printed))
               => vaultResult.value = printed
            /\ ~InSeq("\n", vault[vaultOp.key]) => printed = Trim(vault[vaultOp.key])

\* a hex value stored under a single-line key was read back
C21_Witness ==
    /\ GotStored
    /\ vaultOp.key = "WORDPRESS_DB_PASSWORD"
    /\ vault[vaultOp.key] = <<"6", "1">>
    /\ vaultResult.value = <<"6", "1">>


\* the file was read and parsed as JSON
FileParsed == credentialsFile \notin {FileMissing, FileUnreadable, Malformed}

\* the keys the result rejects
RejectedKeys == {u.key : u \in parseResult.unknown}

---------------------------------------------------------------------------
\* a volume name that ends in _db_data
IsDatabaseVolume(v) ==
    LET suffix == dbVolumeName(<<>>)
    IN  /\ Len(v) >= Len(suffix)
        /\ SubSeq(v, Len(v) - Len(suffix) + 1, Len(v)) = suffix

\* a volume name that ends in _wp_build
IsWpBuildVolume(v) ==
    LET suffix == wpVolumeName(<<>>)
    IN  /\ Len(v) >= Len(suffix)
        /\ SubSeq(v, Len(v) - Len(suffix) + 1, Len(v)) = suffix

\* C23: no step of update removes a database volume; a step of update that
\* removes a volume removes a WordPress build volume, is the step after
\* docker compose down, and is taken without --preserve-wpbuild; that step
\* is reached only from a successful down, and down only from a successful
\* pull; a failed pull changes no volume, no file and starts nothing.
C23_UpdateKeepsDatabaseVolume ==
    [][cmd = "update" /\ cmd' = "update" =>
          LET removed == dockerVolumes \ dockerVolumes'
          IN  /\ \A v \in removed : ~IsDatabaseVolume(v) /\ IsWpBuildVolume(v)
              /\ removed # {} => pc = "volume-rm" /\ ~opts.preserveWpbuild
              /\ pc' = "volume-rm" => pc = "down" /\ exitCode' = "none"
              /\ pc' = "down" => pc = "pull" /\ exitCode' = "none"
              /\ pc = "pull" /\ pc' = "done" =>
                     /\ exitCode' = "1"
                     /\ UNCHANGED <<dockerVolumes, upLog, composeFile, tempFiles>>]_vars

\* update has removed the WordPress build volume and ended; the database
\* volume that existed is still there
C23_Witness ==
    /\ cmd = "update" /\ pc = "done" /\ exitCode = "0"
    /\ ~opts.preserveWpbuild
    /\ wpVolumeName(<<"s", "-", "1">>) \notin dockerVolumes
    /\ dbVolumeName(<<"s", "-", "1">>) \in dockerVolumes
    /\ upCalls = 1

---------------------------------------------------------------------------
\* C24 as stated: init with --force and an existing configuration file
\* replaces the file and completes, in the interactive and in the
\* non-interactive mode; init without --force leaves an existing file as it is.
C24_ForceOverwrites ==
    /\ initOptions.force /\ initOutcome \notin {"none", "cancelled"} =>
           /\ initOutcome = "created"
           /\ configFile \notin InitFiles
    /\ initOutcome = "exists" =>
           /\ ~initOptions.force
           /\ configFile \in InitFiles \ {NoFile}

---------------------------------------------------------------------------
\* C25 as stated: every docker compose invocation of a command names the
\* project with the projectName of the loaded configuration.
C25_EveryInvocationNamesProject ==
    LET loaded == loadConfig(dirName, configFile, envFile)
    IN  \A call \in composeCalls :
            /\ call.project # NoProjectFlag
            /\ loaded # Threw => call.project = ProjectNameOrDefault(loaded)

---------------------------------------------------------------------------
\* C26 as stated: a merged configuration for which validateConfig returned
\* no error is compiled by the generator without a throw.
C26_ValidConfigCompiles ==
    validation = <<>> => generateComposeConfig(config, Cwd(dirName)) # ThrewDescriptor

---------------------------------------------------------------------------
\* C27 as stated: assigning into the services or env of a record that
\* loadConfig returned leaves DEFAULT_CONFIG as it was, and every record
\* loadConfig returns in the process is the one it returns in a fresh
\* process.
C27_RecordsAreFresh ==
    /\ defaultObject = DEFAULT_CONFIG
    /\ \A i \in 1..Len(loadedRecords) :
           loadedRecords[i].returned = loadConfig(dirName, configFile, envFile)

---------------------------------------------------------------------------
\* the field of a service that is a list, empty when the service has none
ListField(service, field) ==
    IF field \in DOMAIN service THEN service[field] ELSE <<>>

\* a volume entry whose source is a volume name, not a host path
IsNamedMount(entry) ==
    LET source == MountSource(entry)
    IN  source # <<>> /\ Head(source) \notin {"/", ".", "./", "~"}

\* C28: in a compiled descriptor every service a depends_on list names is
\* a key of the service map, every volume name a service mounts is a key of
\* the top-level volumes, and every network a service joins is a key of the
\* top-level networks.
C28_DescriptorIsClosed ==
    Compiled =>
        \A n \in DOMAIN composeConfig.services :
            LET service == composeConfig.services[n]
            IN  /\ Range(ListField(service, "depends_on")) \subseteq DOMAIN composeConfig.services
                /\ \A entry \in Range(ListField(service, "volumes")) :
                       IsNamedMount(entry) => MountSource(entry) \in DeclaredVolumes(composeConfig)
                /\ Range(ListField(service, "networks")) \subseteq composeConfig.networks

\* a descriptor with redis off and s3proxy on whose wordpress service mounts
\* its named volume and two host directories
C28_Witness ==
    /\ Compiled
    /\ DOMAIN composeConfig.services = {"db", "wordpress", "s3proxy"}
    /\ composeConfig.services["wordpress"].depends_on = <<"db", "s3proxy">>
    /\ Len(composeConfig.services["wordpress"].volumes) = 3
    /\ \E entry \in Range(composeConfig.services["wordpress"].volumes) : IsNamedMount(entry)
    /\ \E entry \in Range(composeConfig.services["wordpress"].volumes) : ~IsNamedMount(entry)

---------------------------------------------------------------------------
\* C29 as stated: after setCredential(k, v) succeeded for a registry key k
\* and a non-empty value v without leading or trailing whitespace, the next
\* getCredential(k) returns exactly v and the next hasCredential(k) returns
\* true, when the security command does not fail.
C29_SetThenGet ==
    [][(/\ vaultOp.op = "set" /\ vaultResult.kind = "returned"
        /\ vaultOp.value # <<>> /\ Trim(vaultOp.value) = vaultOp.value
        /\ vaultOp'.key = vaultOp.key /\ vaultOp'.failed = {})
       => /\ vaultOp'.op = "get" => vaultResult' = VaultReturned("string", vaultOp.value)
          /\ vaultOp'.op = "has" => vaultResult' = VaultReturned("boolean", <<"true">>)]_vars

---------------------------------------------------------------------------
\* C30 as stated: when no deletion fails, clearAllCredentials returns the
\* number of keys listCredentials reported immediately before the call, and
\* no credential is stored afterwards.
C30_ClearCountsDeleted ==
    [][(/\ vaultOp.op = "list" /\ vaultOp.failed = {} /\ platform = "darwin"
        /\ vaultOp'.op = "clear" /\ vaultOp'.failed = {})
       => /\ vaultResult' = VaultReturned("number", <<Len(vaultResult.value)>>)
          /\ DOMAIN vault' = {}]_vars

====
